---- MODULE Spec2Model ----
(***************************************************************************)
(* A model of the xbase table engine (src/xbase.go), its header            *)
(* (src/header.go) and its field descriptors and value codec (the field    *)
(* implementation carried in src/field_test.go).                           *)
(*                                                                         *)
(* The stream is a sequence of bytes (numbers 0..255) laid out exactly as  *)
(* the code writes it: a 32-byte little-endian header, one 32-byte         *)
(* descriptor per field, the header terminator 0x0D, the records and the   *)
(* file terminator 0x1A.  Every operation of the engine seeks before it    *)
(* reads or writes, so the stream position is local to an action and is    *)
(* not a variable.                                                         *)
(***************************************************************************)
EXTENDS Integers, Sequences, FiniteSets, TLC

\* ---------------------------------------------------------------- bounds
\* Save in adding mode is enabled while the table has fewer records.
MaxRec == 2
\* AddField is enabled while the engine has fewer fields.
MaxFields == 1
\* Flush and Close are enabled while the stream holds fewer bytes than
\* MaxRec records and MaxTail more.
MaxTail == 2

\* ------------------------------------------------------ program constants
dbfId == 3
headerEnd == 13
fileEnd == 26
fieldSize == 32
headerSize == 32
maxFieldNameLen == 10
maxCFieldLen == 254
maxNFieldLen == 19
defaultLFieldLen == 1
defaultDFieldLen == 8
FieldType_Character == 67
FieldType_Numeric == 78
FieldType_Date == 68
FieldType_Float == 70
FieldType_Logical == 76
\* ' ', '*', '.', '-', '+', '0' and 'T', 'F', 't', 'Y', 'y' as bytes
space == 32
chDot == 46
chMinus == 45
chPlus == 43
chZero == 48
chT == 84
chF == 70
chLowT == 116
chY == 89
chLowY == 121
MaxASCII == 127

\* ------------------------------------------------------------ byte helpers
Min(a, b) == IF a < b THEN a ELSE b
Max(a, b) == IF a > b THEN a ELSE b

Zeros(n) == [i \in 1..n |-> 0]
Repeat(b, n) == [i \in 1..n |-> b]

\* encoding/binary little-endian, unsigned 16 and 32 bit
LE16(n) == << n % 256, (n \div 256) % 256 >>
LE32(n) == << n % 256, (n \div 256) % 256, (n \div 65536) % 256, (n \div 16777216) % 256 >>
UnLE16(b) == b[1] + 256 * b[2]
UnLE32(b) == b[1] + 256 * b[2] + 65536 * b[3] + 16777216 * b[4]

\* A write of bytes b at offset off of stream s: overwrites, extends, and
\* zero-fills a gap when off lies past the end (os.File semantics).
WriteAt(s, off, b) ==
    [i \in 1..Max(Len(s), off + Len(b)) |->
        IF i > off /\ i <= off + Len(b) THEN b[i - off]
        ELSE IF i <= Len(s) THEN s[i] ELSE 0]

\* A read of up to n bytes at offset off: what the stream holds there.
ReadAt(s, off, n) ==
    IF off >= Len(s) THEN << >> ELSE SubSeq(s, off + 1, Min(off + n, Len(s)))

\* ------------------------------------------------------------------ errors
\* An error value: its kind (message), and for the field-level errors
\* wrapped by wrapFieldError the operation, the field number and, when the
\* message carries one (named), the field name.
Err(kind) == [kind |-> kind, op |-> "", fieldNo |-> 0, named |-> FALSE, name |-> << >>]
Nil == Err("nil")
BOFError == Err("BOF")
ioEOF == Err("EOF")
ErrUnexpectedEOF == Err("unexpected EOF")
ErrNotDBF == Err("not DBF file")
ErrWrite == Err("write failed")

\* ------------------------------------------------------------------ header
\* time.Now() as the header stores it (year-1900, month, day): the calls of
\* one run fall on one day, later than the day the opened table was written.
Today == <<126, 11, 5>>

newHeader(now) ==
    [DbfId |-> dbfId, ModDate |-> now, RecCount |-> 0, DataOffset |-> 0,
     RecSize |-> 0, Filler1 |-> Zeros(17), CP |-> 0, Filler2 |-> Zeros(2)]

\* header.write: binary.Write of the struct, 32 bytes.
headerBytes(h) ==
    << h.DbfId >> \o h.ModDate \o LE32(h.RecCount) \o LE16(h.DataOffset)
       \o LE16(h.RecSize) \o h.Filler1 \o << h.CP >> \o h.Filler2

\* binary.Read of 32 bytes into the struct.
headerDecode(b) ==
    [DbfId |-> b[1], ModDate |-> SubSeq(b, 2, 4), RecCount |-> UnLE32(SubSeq(b, 5, 8)),
     DataOffset |-> UnLE16(SubSeq(b, 9, 10)), RecSize |-> UnLE16(SubSeq(b, 11, 12)),
     Filler1 |-> SubSeq(b, 13, 29), CP |-> b[30], Filler2 |-> SubSeq(b, 31, 32)]

\* Go's integer division truncates toward zero.
GoDiv(a, b) == IF a >= 0 THEN a \div b ELSE -((-a) \div b)

\* setFieldCount without the byte of the header terminator.
setFieldCountNoEnd(h, count) ==
    [h EXCEPT !.DataOffset = (count * fieldSize + headerSize) % 65536]

fieldCount(h) == GoDiv(h.DataOffset - headerSize - 1, fieldSize)

setFieldCount(h, count) ==
    [h EXCEPT !.DataOffset = (count * fieldSize + headerSize + 1) % 65536]

setModDate(h, d) == [h EXCEPT !.ModDate = d]

\* header.read without the test of the file-type byte.
headerReadAnyId(h, s) ==
    IF Len(s) = 0 THEN [h |-> h, err |-> ioEOF]
    ELSE IF Len(s) < headerSize THEN [h |-> h, err |-> ErrUnexpectedEOF]
    ELSE [h |-> headerDecode(SubSeq(s, 1, headerSize)), err |-> Nil]

\* header.read: the header after the call and the error.  binary.Read
\* fills the struct only when all 32 bytes were read.
headerRead(h, s) ==
    IF Len(s) = 0 THEN [h |-> h, err |-> ioEOF]
    ELSE IF Len(s) < headerSize THEN [h |-> h, err |-> ErrUnexpectedEOF]
    ELSE LET d == headerDecode(SubSeq(s, 1, headerSize))
         IN  [h |-> d, err |-> IF d.DbfId # dbfId THEN ErrNotDBF ELSE Nil]

\* ------------------------------------------------------------ string utils
\* Strings are sequences of bytes.
WhiteSpace == {9, 10, 11, 12, 13, 32}

RECURSIVE TrimLeftSet(_, _)
TrimLeftSet(s, cut) ==
    IF Len(s) > 0 /\ s[1] \in cut THEN TrimLeftSet(Tail(s), cut) ELSE s

RECURSIVE TrimRightSet(_, _)
TrimRightSet(s, cut) ==
    IF Len(s) > 0 /\ s[Len(s)] \in cut
    THEN TrimRightSet(SubSeq(s, 1, Len(s) - 1), cut) ELSE s

TrimSpace(s) == TrimRightSet(TrimLeftSet(s, WhiteSpace), WhiteSpace)
TrimRight(s, b) == TrimRightSet(s, {b})
TrimLeft(s, b) == TrimLeftSet(s, {b})

\* strings.ToUpper on ASCII letters
ToUpper(s) == [i \in 1..Len(s) |-> IF s[i] >= 97 /\ s[i] <= 122 THEN s[i] - 32 ELSE s[i]]

\* strings.IndexByte: 0-based index of the first b in s, -1 when absent
IndexByte(s, b) ==
    IF \E i \in 1..Len(s) : s[i] = b
    THEN (CHOOSE i \in 1..Len(s) : s[i] = b /\ \A j \in 1..(i - 1) : s[j] # b) - 1
    ELSE -1

padRight(s, width) ==
    IF Len(s) >= width THEN s ELSE s \o Repeat(space, width - Len(s))

padLeft(s, width) ==
    IF Len(s) >= width THEN s ELSE Repeat(space, width - Len(s)) \o s

isASCII(s) == \A i \in 1..Len(s) : s[i] <= MaxASCII

\* -------------------------------------------------------- field descriptor
emptyField ==
    [Name |-> Zeros(11), Type |-> 0, Offset |-> 0, Len |-> 0, Dec |-> 0,
     Filler |-> Zeros(14)]

\* field.name: the bytes before the first zero byte (the code slices at
\* IndexByte and panics on a name with no zero byte; descriptors written by
\* the engine always hold one).
name(f) ==
    LET i == IndexByte(f.Name, 0) IN IF i < 0 THEN f.Name ELSE SubSeq(f.Name, 1, i)

\* Each setter: the field after the call and the error.
setName(f, nm) ==
    LET n == ToUpper(TrimSpace(nm))
    IN  IF Len(n) = 0 THEN [f |-> f, err |-> Err("empty field name")]
        ELSE IF Len(n) > maxFieldNameLen THEN [f |-> f, err |-> Err("too long field name")]
        ELSE [f |-> [f EXCEPT !.Name = n \o Zeros(11 - Len(n))], err |-> Nil]

setType(f, typ) ==
    LET t == ToUpper(TrimSpace(typ))
    IN  IF Len(t) = 0 THEN [f |-> f, err |-> Err("empty field type")]
        ELSE IF t[1] \notin {FieldType_Character, FieldType_Numeric, FieldType_Logical,
                             FieldType_Date, FieldType_Float}
             THEN [f |-> f, err |-> Err("invalid field type")]
        ELSE [f |-> [f EXCEPT !.Type = t[1]], err |-> Nil]

setLen(f, length) ==
    IF f.Type = FieldType_Character /\ (length <= 0 \/ length > maxCFieldLen)
    THEN [f |-> f, err |-> Err("invalid field len")]
    ELSE IF f.Type \in {FieldType_Numeric, FieldType_Float}
            /\ (length <= 0 \/ length > maxNFieldLen)
    THEN [f |-> f, err |-> Err("invalid field len")]
    ELSE LET l == IF f.Type = FieldType_Logical THEN defaultLFieldLen
                  ELSE IF f.Type = FieldType_Date THEN defaultDFieldLen
                  ELSE length
         IN  [f |-> [f EXCEPT !.Len = l % 256], err |-> Nil]

setDec(f, dec) ==
    IF f.Type \in {FieldType_Numeric, FieldType_Float}
    THEN IF dec < 0 THEN [f |-> f, err |-> Err("invalid field dec")]
         ELSE IF f.Len <= 2 /\ dec > 0 THEN [f |-> f, err |-> Err("invalid field dec")]
         ELSE IF f.Len > 2 /\ dec > f.Len - 2 THEN [f |-> f, err |-> Err("invalid field dec")]
         ELSE [f |-> [f EXCEPT !.Dec = dec % 256], err |-> Nil]
    ELSE [f |-> [f EXCEPT !.Dec = 0], err |-> Nil]

\* NewField: name, type, length, decimals in that order; the first error wins.
NewField(nm, typ, length, dec) ==
    LET r1 == setName(emptyField, nm)
        r2 == setType(r1.f, typ)
        r3 == setLen(r2.f, length)
        r4 == setDec(r3.f, dec)
    IN  IF r1.err # Nil THEN r1
        ELSE IF r2.err # Nil THEN r2
        ELSE IF r3.err # Nil THEN r3
        ELSE r4

\* field.write: binary.Write of the struct with the offset zeroed, 32 bytes.
fieldBytes(f) ==
    f.Name \o << f.Type >> \o LE32(0) \o << f.Len, f.Dec >> \o f.Filler

\* field.read: binary.Read of 32 bytes into the struct.
fieldDecode(b) ==
    [Name |-> SubSeq(b, 1, 11), Type |-> b[12], Offset |-> UnLE32(SubSeq(b, 13, 16)),
     Len |-> b[17], Dec |-> b[18], Filler |-> SubSeq(b, 19, 32)]

\* field.buffer: the field's slice of the record buffer.
buffer_(f, recordBuf) == SubSeq(recordBuf, f.Offset + 1, f.Offset + f.Len)

\* field.setBuffer: copy() of value into the field's slice; copy stops at
\* the shorter of the two.
setBuffer(f, recordBuf, value) ==
    [i \in 1..Len(recordBuf) |->
        IF i > f.Offset /\ i <= f.Offset + Min(f.Len, Len(value))
        THEN value[i - f.Offset] ELSE recordBuf[i]]

checkType(f, t) == IF t # f.Type THEN Err("type mismatch") ELSE Nil

\* checkLen accepting any value: copy() stores what fits.
checkLenNone(f, value) == Nil

checkLen(f, value) == IF Len(value) > f.Len THEN Err("field value overflow") ELSE Nil

\* ------------------------------------------------------------- value codec
\* A dynamic value handed to SetFieldValue or returned by a getter: its Go
\* type and the payload (s for a string, n for an integer, b for a bool).
StrV(s) == [t |-> "string", s |-> s, n |-> 0, b |-> FALSE]
IntV(n) == [t |-> "int", s |-> << >>, n |-> n, b |-> FALSE]
BoolV(b) == [t |-> "bool", s |-> << >>, n |-> 0, b |-> b]
OtherV == [t |-> "other", s |-> << >>, n |-> 0, b |-> FALSE]

\* A float64 with a finite decimal expansion: m / 10^e, e least.
RECURSIVE FloatV(_, _)
FloatV(m, e) ==
    IF e > 0 /\ m % 10 = 0 THEN FloatV(m \div 10, e - 1)
    ELSE [t |-> "float", s |-> << e >>, n |-> m, b |-> FALSE]

\* A time.Time at midnight UTC: year, month, day; the zero Time is 1-01-01.
DateV(y, m, d) == [t |-> "date", s |-> << y, m, d >>, n |-> 0, b |-> FALSE]

\* strconv.FormatInt(v, 10)
RECURSIVE Digits(_)
Digits(n) == IF n < 10 THEN << chZero + n >> ELSE Digits(n \div 10) \o << chZero + (n % 10) >>

FormatInt(v) == IF v < 0 THEN << chMinus >> \o Digits(-v) ELSE Digits(v)

IsDigit(b) == b >= chZero /\ b <= chZero + 9

RECURSIVE DigitsValue(_)
DigitsValue(s) ==
    IF Len(s) = 0 THEN 0
    ELSE 10 * DigitsValue(SubSeq(s, 1, Len(s) - 1)) + (s[Len(s)] - chZero)

\* strconv.ParseInt(s, 10, 64): an optional sign and at least one digit,
\* nothing else; the value and the error.
ParseInt(s) ==
    LET signed == Len(s) > 0 /\ s[1] \in {chMinus, chPlus}
        body == IF signed THEN Tail(s) ELSE s
    IN  IF Len(body) = 0 \/ \E i \in 1..Len(body) : ~IsDigit(body[i])
        THEN [val |-> 0, err |-> Err("invalid syntax")]
        ELSE [val |-> IF signed /\ s[1] = chMinus THEN -DigitsValue(body) ELSE DigitsValue(body),
              err |-> Nil]

\* strconv.ParseFloat(s, 64) on decimal text: an optional sign, digits with
\* at most one point among them and at least one digit.  (Exponents,
\* hexadecimal text, "inf" and "nan" need letters no record of the model
\* holds.)
ParseFloat(s) ==
    LET signed == Len(s) > 0 /\ s[1] \in {chMinus, chPlus}
        body == IF signed THEN Tail(s) ELSE s
        i == IndexByte(body, chDot)
        ip == IF i >= 0 THEN SubSeq(body, 1, i) ELSE body
        fp == IF i >= 0 THEN SubSeq(body, i + 2, Len(body)) ELSE << >>
        ds == ip \o fp
    IN  IF Len(ds) = 0 \/ \E k \in 1..Len(ds) : ~IsDigit(ds[k])
        THEN [val |-> FloatV(0, 0), err |-> Err("invalid syntax")]
        ELSE [val |-> FloatV(IF signed /\ s[1] = chMinus THEN -DigitsValue(ds)
                                                        ELSE DigitsValue(ds), Len(fp)),
              err |-> Nil]

\* The days of month m of year y.
DaysIn(y, m) ==
    IF m = 2 THEN (IF (y % 4 = 0 /\ y % 100 # 0) \/ y % 400 = 0 THEN 29 ELSE 28)
    ELSE IF m \in {4, 6, 9, 11} THEN 30 ELSE 31

\* time.Parse("20060102", s): four digits of year, two of month, two of day.
ParseDate(s) ==
    LET y == DigitsValue(SubSeq(s, 1, 4))
        m == DigitsValue(SubSeq(s, 5, 6))
        d == DigitsValue(SubSeq(s, 7, 8))
    IN  IF Len(s) # 8 \/ \E k \in 1..Len(s) : ~IsDigit(s[k])
        THEN [val |-> DateV(1, 1, 1), err |-> Err("parsing time")]
        ELSE IF m < 1 \/ m > 12 THEN [val |-> DateV(1, 1, 1), err |-> Err("parsing time")]
        ELSE IF d < 1 \/ d > DaysIn(y, m)
        THEN [val |-> DateV(1, 1, 1), err |-> Err("parsing time")]
        ELSE [val |-> DateV(y, m, d), err |-> Nil]

\* ---------------------------------------------------- code-page translators
\* A Go string is its bytes; text outside ASCII is UTF-8.  utf8.DecodeRune
\* at the head of s, for runes of one and two bytes: the rune and its size
\* (RuneError, U+FFFD, of size 1 for anything else).
DecodeRune(s) ==
    IF s[1] <= MaxASCII THEN [r |-> s[1], size |-> 1]
    ELSE IF s[1] >= 194 /\ s[1] <= 223 /\ Len(s) >= 2 /\ s[2] >= 128 /\ s[2] <= 191
    THEN [r |-> (s[1] - 192) * 64 + (s[2] - 128), size |-> 2]
    ELSE [r |-> 65533, size |-> 1]

\* utf8.EncodeRune for a rune below U+0800.
EncodeRune(r) ==
    IF r <= MaxASCII THEN << r >> ELSE << 192 + (r \div 64), 128 + (r % 64) >>

\* The byte of rune r in the charmap of a page, -1 when the page has none.
\* Modelled: ASCII (the same in every page of cPages) and the Cyrillic
\* letters U+0410..U+044F of page 866; the other runes of the pages are
\* not modelled, and no string of the model holds one.
charmapByte(page, r) ==
    IF r <= MaxASCII THEN r
    ELSE IF page = 866 /\ r >= 1040 /\ r <= 1087 THEN r - 1040 + 128
    ELSE IF page = 866 /\ r >= 1088 /\ r <= 1103 THEN r - 1088 + 224
    ELSE -1

\* The rune of byte b in the charmap of a page.
charmapRune(page, b) ==
    IF b <= MaxASCII THEN b
    ELSE IF page = 866 /\ b >= 128 /\ b <= 175 THEN b - 128 + 1040
    ELSE IF page = 866 /\ b >= 224 /\ b <= 239 THEN b - 224 + 1088
    ELSE 65533

\* encoding.Encoder.String: every rune replaced by its byte; a rune the
\* page does not have is an error.
RECURSIVE encString(_, _)
encString(page, s) ==
    IF Len(s) = 0 THEN [val |-> << >>, err |-> Nil]
    ELSE LET d == DecodeRune(s)
             b == charmapByte(page, d.r)
             rest == encString(page, SubSeq(s, d.size + 1, Len(s)))
         IN  IF b < 0 THEN [val |-> << >>, err |-> Err("encoding: rune not supported by encoding.")]
             ELSE IF rest.err # Nil THEN rest
             ELSE [val |-> << b >> \o rest.val, err |-> Nil]

\* encoding.Decoder.String: every byte replaced by the UTF-8 of its rune.
RECURSIVE decString(_, _)
decString(page, s) ==
    IF Len(s) = 0 THEN << >>
    ELSE EncodeRune(charmapRune(page, s[1])) \o decString(page, Tail(s))

\* Getters: the value and the error.
\* The decoder is applied to a C field holding non-ASCII bytes only; dec is
\* the code page of the decoder, 0 for none.
stringValue(f, recordBuf, dec) ==
    LET s0 == buffer_(f, recordBuf)
        s == IF f.Type = FieldType_Character THEN TrimRight(s0, space)
             ELSE IF f.Type \in {FieldType_Numeric, FieldType_Float} THEN TrimLeft(s0, space)
             ELSE s0
    IN  IF dec # 0 /\ f.Type = FieldType_Character /\ ~isASCII(s)
        THEN [val |-> StrV(decString(dec, s)), err |-> Nil]
        ELSE [val |-> StrV(s), err |-> Nil]

boolValue(f, recordBuf) ==
    IF checkType(f, FieldType_Logical) # Nil
    THEN [val |-> BoolV(FALSE), err |-> checkType(f, FieldType_Logical)]
    ELSE [val |-> BoolV(buffer_(f, recordBuf)[1] \in {chT, chLowT, chY, chLowY}), err |-> Nil]

\* intValue parsing the whole text, decimals included.
intValueWhole(f, recordBuf) ==
    IF checkType(f, FieldType_Numeric) # Nil
    THEN [val |-> IntV(0), err |-> checkType(f, FieldType_Numeric)]
    ELSE LET s == TrimSpace(buffer_(f, recordBuf))
         IN  IF Len(s) = 0 \/ s[1] = chDot THEN [val |-> IntV(0), err |-> Nil]
             ELSE [val |-> IntV(ParseInt(s).val), err |-> ParseInt(s).err]

intValue(f, recordBuf) ==
    IF checkType(f, FieldType_Numeric) # Nil
    THEN [val |-> IntV(0), err |-> checkType(f, FieldType_Numeric)]
    ELSE LET s == TrimSpace(buffer_(f, recordBuf))
             i == IndexByte(s, chDot)
             body == IF i > 0 THEN SubSeq(s, 1, i) ELSE s
         IN  IF Len(s) = 0 \/ s[1] = chDot THEN [val |-> IntV(0), err |-> Nil]
             ELSE [val |-> IntV(ParseInt(body).val), err |-> ParseInt(body).err]

dateValue(f, recordBuf) ==
    IF checkType(f, FieldType_Date) # Nil
    THEN [val |-> DateV(1, 1, 1), err |-> checkType(f, FieldType_Date)]
    ELSE LET s == buffer_(f, recordBuf)
         IN  IF Len(TrimRightSet(TrimLeftSet(s, {space}), {space})) = 0
             THEN [val |-> DateV(1, 1, 1), err |-> Nil]
             ELSE ParseDate(s)

floatValue(f, recordBuf) ==
    IF checkType(f, FieldType_Float) # Nil
    THEN [val |-> FloatV(0, 0), err |-> checkType(f, FieldType_Float)]
    ELSE LET s == TrimSpace(buffer_(f, recordBuf))
         IN  IF Len(s) = 0 \/ s[1] = chDot THEN [val |-> FloatV(0, 0), err |-> Nil]
             ELSE ParseFloat(s)

\* 10^n
RECURSIVE Pow10(_)
Pow10(n) == IF n = 0 THEN 1 ELSE 10 * Pow10(n - 1)

\* n in decimal digits, zero-padded on the left to width.
ZeroPad(n, width) ==
    LET d == Digits(n) IN Repeat(chZero, width - Len(d)) \o d

\* strconv.FormatFloat(v, 'f', dec, 64) of v = m / 10^e: the sign, the
\* integer digits and exactly dec fraction digits, rounded to nearest.  (A
\* value halfway between two renderings goes by its binary expansion; no
\* float of the model is one.)
FormatFloat(v, dec) ==
    LET e == v.s[1]
        a == IF v.n < 0 THEN -v.n ELSE v.n
        scaled == IF e <= dec THEN a * Pow10(dec - e)
                  ELSE (a + Pow10(e - dec) \div 2) \div Pow10(e - dec)
    IN  (IF v.n < 0 THEN << chMinus >> ELSE << >>)
        \o Digits(scaled \div Pow10(dec))
        \o (IF dec > 0 THEN << chDot >> \o ZeroPad(scaled % Pow10(dec), dec) ELSE << >>)

\* time.Time.Format("20060102"): the year in at least four digits, month
\* and day in two.
FormatDate(v) == ZeroPad(v.s[1], 4) \o ZeroPad(v.s[2], 2) \o ZeroPad(v.s[3], 2)

\* Setters: the record buffer after the call and the error.
\* enc is the code page of the encoder, 0 for none.
setStringValue(f, recordBuf, value, enc) ==
    LET e == IF enc # 0 /\ ~isASCII(value) THEN encString(enc, value)
             ELSE [val |-> value, err |-> Nil]
    IN  IF checkType(f, FieldType_Character) # Nil
        THEN [buf |-> recordBuf, err |-> checkType(f, FieldType_Character)]
        ELSE IF e.err # Nil THEN [buf |-> recordBuf, err |-> e.err]
        ELSE IF checkLen(f, e.val) # Nil
        THEN [buf |-> recordBuf, err |-> checkLen(f, e.val)]
        ELSE [buf |-> setBuffer(f, recordBuf, padRight(e.val, f.Len)), err |-> Nil]

setBoolValue(f, recordBuf, value) ==
    IF checkType(f, FieldType_Logical) # Nil
    THEN [buf |-> recordBuf, err |-> checkType(f, FieldType_Logical)]
    ELSE [buf |-> setBuffer(f, recordBuf, IF value THEN << chT >> ELSE << chF >>), err |-> Nil]

setIntValue(f, recordBuf, value) ==
    LET s == FormatInt(value)
             \o (IF f.Dec > 0 THEN << chDot >> \o Repeat(chZero, f.Dec) ELSE << >>)
    IN  IF checkType(f, FieldType_Numeric) # Nil
        THEN [buf |-> recordBuf, err |-> checkType(f, FieldType_Numeric)]
        ELSE IF checkLen(f, s) # Nil
        THEN [buf |-> recordBuf, err |-> checkLen(f, s)]
        ELSE [buf |-> setBuffer(f, recordBuf, padLeft(s, f.Len)), err |-> Nil]

setDateValue(f, recordBuf, value) ==
    IF checkType(f, FieldType_Date) # Nil
    THEN [buf |-> recordBuf, err |-> checkType(f, FieldType_Date)]
    ELSE [buf |-> setBuffer(f, recordBuf, FormatDate(value)), err |-> Nil]

setFloatValue(f, recordBuf, value) ==
    LET s == FormatFloat(value, f.Dec)
    IN  IF checkType(f, FieldType_Float) # Nil
        THEN [buf |-> recordBuf, err |-> checkType(f, FieldType_Float)]
        ELSE IF checkLen(f, s) # Nil
        THEN [buf |-> recordBuf, err |-> checkLen(f, s)]
        ELSE [buf |-> setBuffer(f, recordBuf, padLeft(s, f.Len)), err |-> Nil]

\* field.setValue: dispatch on the value's dynamic type.
setValue(f, recordBuf, value, enc) ==
    CASE value.t = "string" -> setStringValue(f, recordBuf, value.s, enc)
      [] value.t = "bool" -> setBoolValue(f, recordBuf, value.b)
      [] value.t = "int" -> setIntValue(f, recordBuf, value.n)
      [] value.t = "float" -> setFloatValue(f, recordBuf, value)
      [] value.t = "date" -> setDateValue(f, recordBuf, value)
      [] OTHER -> [buf |-> recordBuf, err |-> Err("unsupport type value")]

\* ---------------------------------------------------------- code-page table
\* cPages: the file tag (code) of each supported page; the translator of a
\* page is identified by the page number.
cPages ==
    { <<1, 437>>, <<2, 850>>, <<3, 1252>>, <<4, 10000>>, <<100, 852>>, <<101, 866>>,
      <<102, 865>>, <<125, 1255>>, <<126, 1256>>, <<150, 10007>>, <<200, 1250>>,
      <<201, 1251>>, <<202, 1254>>, <<203, 1253>> }

\* 0 stands for the nil translator.
charMapByPage(page) == IF \E c \in cPages : c[2] = page THEN page ELSE 0

codeByPage(page) ==
    IF \E c \in cPages : c[2] = page THEN (CHOOSE c \in cPages : c[2] = page)[1] ELSE 0

pageByCode(code) ==
    IF \E c \in cPages : c[1] = code THEN (CHOOSE c \in cPages : c[1] = code)[2] ELSE 0

codePage(h) == pageByCode(h.CP)

\* setCodePage storing the low byte of the page number itself.
setCodePageRaw(h, cp) == [h EXCEPT !.CP = cp % 256]

setCodePage(h, cp) == [h EXCEPT !.CP = codeByPage(cp)]

\* --------------------------------------------------------- struct reflector
\* A struct field as reflect.StructField gives it: the declared name, the
\* tag it carries under each tag name (present: the tag is not empty;
\* first: its first comma-separated token; inline: the option "inline" is
\* among the others), whether it is embedded (Anonymous) and exported
\* (PkgPath = ""), and its type: a struct type of StructTypes or a scalar
\* kind, behind a pointer or not.
NoTag == [present |-> FALSE, first |-> "", inline |-> FALSE]
Tag(first) == [present |-> TRUE, first |-> first, inline |-> FALSE]
InlineTag(first) == [present |-> TRUE, first |-> first, inline |-> TRUE]

StructField(nm, dbfTag, typ) ==
    [Name |-> nm, Tags |-> [t \in {"dbf", "csv"} |-> IF t = "dbf" THEN dbfTag ELSE NoTag],
     Anonymous |-> FALSE, Exported |-> TRUE, Type |-> typ, Ptr |-> FALSE]

Embedded(typ, ptr) ==
    [Name |-> typ, Tags |-> [t \in {"dbf", "csv"} |-> NoTag],
     Anonymous |-> TRUE, Exported |-> TRUE, Type |-> typ, Ptr |-> ptr]

\* The struct types reflected:
\*   Tie        { X string; Y string `dbf:"X"`; P string `dbf:"n"`;
\*                Q string `dbf:"n"`; u string; S string `dbf:"-"`; Z string }
\*   E1         { X string; W string }
\*   E2         { W string; V string `dbf:"X"` }
\*   Deep       { E2; X string }
\*   Amb        { E1; E2 }
\*   Common     { K string `dbf:"k"` }
\*   L1, L2     { Common }
\*   Dup        { L1; L2; B bool }
\*   SelfPtr    { Name string; *SelfPtr }
\*   Box        { Id int; In Item `dbf:"i,inline"` }
\*   Item       { Id int }
\*   SelfInline { Id int; Next *SelfInline `dbf:"n,inline"` }
StructTypes ==
    [ Tie |-> << StructField("X", NoTag, "string"), StructField("Y", Tag("X"), "string"),
                 StructField("P", Tag("n"), "string"), StructField("Q", Tag("n"), "string"),
                 [StructField("u", NoTag, "string") EXCEPT !.Exported = FALSE],
                 StructField("S", Tag("-"), "string"), StructField("Z", NoTag, "string") >>,
      E1 |-> << StructField("X", NoTag, "string"), StructField("W", NoTag, "string") >>,
      E2 |-> << StructField("W", NoTag, "string"), StructField("V", Tag("X"), "string") >>,
      Deep |-> << Embedded("E2", FALSE), StructField("X", NoTag, "string") >>,
      Amb |-> << Embedded("E1", FALSE), Embedded("E2", FALSE) >>,
      Common |-> << StructField("K", Tag("k"), "string") >>,
      L1 |-> << Embedded("Common", FALSE) >>,
      L2 |-> << Embedded("Common", FALSE) >>,
      Dup |-> << Embedded("L1", FALSE), Embedded("L2", FALSE), StructField("B", NoTag, "bool") >>,
      SelfPtr |-> << StructField("Name", NoTag, "string"), Embedded("SelfPtr", TRUE) >>,
      Box |-> << StructField("Id", NoTag, "int"), StructField("In", InlineTag("i"), "Item") >>,
      Item |-> << StructField("Id", NoTag, "int") >>,
      SelfInline |-> << StructField("Id", NoTag, "int"),
                        [StructField("Next", InlineTag("n"), "SelfInline") EXCEPT !.Ptr = TRUE] >> ]

\* reflect.Kind of a type (after walkType / Elem): reflect.Struct or not.
IsStruct(typ) == typ \in DOMAIN StructTypes

\* The zero tag.
emptyTag ==
    [name |-> "", prefix |-> "", empty |-> FALSE, ignore |-> FALSE, inline |-> FALSE,
     dbfType |-> ""]

\* parseTag: the tag of struct field sf under tagname.  (omitempty, len and
\* dec are carried by no tag of StructTypes.)
parseTag(tagname, sf) ==
    LET t == sf.Tags[tagname]
        kind == CASE sf.Type = "string" /\ ~sf.Ptr -> "C"
                  [] sf.Type = "int" /\ ~sf.Ptr -> "N"
                  [] sf.Type = "float64" /\ ~sf.Ptr -> "F"
                  [] sf.Type = "bool" /\ ~sf.Ptr -> "L"
                  [] OTHER -> ""
    IN  IF ~t.present THEN [emptyTag EXCEPT !.name = sf.Name, !.empty = TRUE]
        ELSE IF t.first = "-" THEN [emptyTag EXCEPT !.ignore = TRUE]
        ELSE [emptyTag EXCEPT
                 !.name = IF t.first = "" THEN sf.Name ELSE t.first,
                 !.inline = t.inline /\ IsStruct(sf.Type),
                 !.prefix = IF t.inline /\ IsStruct(sf.Type) THEN t.first ELSE "",
                 !.dbfType = kind]

\* fieldDescription (baseType, the type before Elem, is not carried).
fieldDescription(nm, typ, tag, index) ==
    [name |-> nm, typ |-> typ, tag |-> tag, index |-> index]

makeIndex(index, v) == Append(index, v)

\* fieldMap.insert giving tagged fields no priority.
fieldMapInsertNoPriority(m, f) ==
    LET put(fs) == [n \in DOMAIN m \cup {f.name} |-> IF n = f.name THEN fs ELSE m[n]]
    IN  IF f.name \notin DOMAIN m THEN put(<< f >>)
        ELSE IF Len(m[f.name][1].index) # Len(f.index) THEN m
        ELSE put(Append(m[f.name], f))

\* fieldMap.insert.  A fieldMap is a function from the names it holds.
fieldMapInsert(m, f) ==
    LET put(fs) == [n \in DOMAIN m \cup {f.name} |-> IF n = f.name THEN fs ELSE m[n]]
    IN  IF f.name \notin DOMAIN m THEN put(<< f >>)
        ELSE IF Len(m[f.name][1].index) # Len(f.index) THEN m
        ELSE IF ~f.tag.empty THEN put(<< f >> \o m[f.name])
        ELSE put(Append(m[f.name], f))

\* fieldDescriptions.Less; the indexing fs[j].index[k] is out of range, a
\* run-time panic, when LessPanics.
LessPanics(a, b) ==
    /\ Len(a.index) > Len(b.index)
    /\ \A k \in 1..Len(b.index) : a.index[k] = b.index[k]

Less(a, b) ==
    LET ks == { k \in 1..Min(Len(a.index), Len(b.index)) : a.index[k] # b.index[k] }
    IN  IF ks # {} THEN LET k == CHOOSE x \in ks : \A y \in ks : x <= y
                        IN  a.index[k] < b.index[k]
        ELSE Len(a.index) < Len(b.index)

\* sort.Sort by Less of a set of descriptions no two of which are equal
\* under Less.
RECURSIVE sortDescriptions(_)
sortDescriptions(S) ==
    IF S = {} THEN << >>
    ELSE LET m == CHOOSE x \in S : \A y \in S \ {x} : ~Less(y, x)
         IN  << m >> \o sortDescriptions(S \ {m})

\* fieldMap.fields: of every name the entries up to the first whose tag
\* differs in emptiness from the first entry's; the name is emitted when
\* one entry is left.
fieldMapFields(m) ==
    LET cutAt(v) ==
            LET ds == { i \in 1..Len(v) : v[i].tag.empty # v[1].tag.empty }
            IN  IF ds = {} THEN v
                ELSE SubSeq(v, 1, (CHOOSE i \in ds : \A j \in ds : i <= j) - 1)
    IN  sortDescriptions({ cutAt(m[n])[1] : n \in { x \in DOMAIN m : Len(cutAt(m[x])) = 1 } })

\* The state of buildFields: the key k, the queue q, the visited keys, the
\* field map fm, the node f being enumerated with the number i of its next
\* field (cur = FALSE between nodes), and the plan once it has returned.
walkStart(k) ==
    [k |-> k, q |-> << fieldDescription("", k.typ, emptyTag, << >>) >>, visited |-> {},
     fm |-> << >>, cur |-> FALSE, f |-> fieldDescription("", k.typ, emptyTag, << >>),
     i |-> 0, done |-> FALSE, plan |-> << >>]

\* The key of the visited set: the node's type and its whole tag.
visitKey(f) == [typ |-> f.typ, tag |-> f.tag]

\* The head of the loop `for len(q) > 0`: the plan when the queue is
\* empty, else the next node, dropped when its key was visited.
walkDequeue(w) ==
    IF Len(w.q) = 0 THEN [w EXCEPT !.done = TRUE, !.plan = fieldMapFields(w.fm)]
    ELSE LET f == Head(w.q)
         IN  IF visitKey(f) \in w.visited THEN [w EXCEPT !.q = Tail(w.q)]
             ELSE [w EXCEPT !.q = Tail(w.q), !.visited = w.visited \cup {visitKey(f)},
                            !.cur = TRUE, !.f = f, !.i = 0]

\* One turn of the loop over the fields of node w.f: field number w.i.
walkField(w) ==
    LET f == w.f
        i == w.i
        sf == StructTypes[f.typ][i + 1]
        depth == Len(f.index)
        t0 == parseTag(w.k.tag, sf)
        tag == IF f.tag.prefix # "" THEN [t0 EXCEPT !.prefix = t0.prefix \o f.tag.prefix]
               ELSE t0
        newf == fieldDescription(tag.prefix \o tag.name, sf.Type, tag, makeIndex(f.index, i))
        \* the nodes of the queue on the level of f, up to the first of another level
        level == LET ds == { n \in 1..Len(w.q) : Len(w.q[n].index) # depth }
                 IN  IF ds = {} THEN w.q
                     ELSE SubSeq(w.q, 1, (CHOOSE n \in ds : \A j \in ds : n <= j) - 1)
        RECURSIVE dup(_, _)
        dup(n, m) ==
            IF n > Len(level) THEN m
            ELSE IF level[n].typ = f.typ /\ level[n].tag.prefix = tag.prefix
            THEN dup(n + 1, fieldMapInsert(m, [newf EXCEPT !.index = makeIndex(level[n].index, i)]))
            ELSE dup(n + 1, m)
        next == [w EXCEPT !.i = i + 1, !.cur = i + 1 < Len(StructTypes[f.typ])]
    IN  IF ~sf.Exported /\ ~sf.Anonymous THEN next
        ELSE IF sf.Anonymous /\ ~sf.Exported /\ ~IsStruct(sf.Type) THEN next
        ELSE IF t0.ignore THEN next
        ELSE IF sf.Anonymous /\ IsStruct(sf.Type) /\ tag.empty
        THEN [next EXCEPT !.q = Append(w.q, newf)]
        ELSE IF tag.inline /\ IsStruct(sf.Type)
        THEN [next EXCEPT !.q = Append(w.q, newf)]
        ELSE [next EXCEPT !.fm = dup(1, fieldMapInsert(w.fm, newf))]

\* One step of buildFields.  (A node of a struct type without fields has
\* no turn of the inner loop; StructTypes has none.)
walkStep(w) == IF w.cur THEN walkField(w) ELSE walkDequeue(w)

\* buildFields(k), for a key whose walk ends.
RECURSIVE walkRun(_)
walkRun(w) == IF w.done THEN w.plan ELSE walkRun(walkStep(w))

buildFields(k) == walkRun(walkStart(k))

\* ------------------------------------------------------------------ engine
VARIABLES
    header,     \* db.header
    fields,     \* db.fields
    rws,        \* db.rws: "nil", an open "file" (an fs.File and io.Closer),
                \* an in-memory "mem" read-write-seeker, or a "closed" file
    stream,     \* the bytes of the stream behind db.rws
    buffer,     \* db.buffer, the record buffer
    err,        \* db.err, the sticky error
    recordNum,  \* db.recordNum
    isAdd,      \* db.isAdd
    isMod,      \* db.isMod
    encoder,    \* db.encoder: the page of the installed encoder, 0 for nil
    decoder,    \* db.decoder
    readStep,   \* db.readStep
    writeStep,  \* db.writeStep
    walk,       \* the state of the running buildFields call
    fieldCache, \* fieldCache: the map m and the holders of the lock mtx
    callers,    \* the goroutines calling cachedFields
    last        \* the last call: operation, argument, returned error and
                \* value, and how far it continues GoTo; SetFieldValue

vars == << header, fields, rws, stream, buffer, err, recordNum, isAdd, isMod,
           encoder, decoder, readStep, writeStep, walk, fieldCache, callers, last >>

reflVars == << walk, fieldCache, callers >>

\* The goroutines that call cachedFields.
MaxCallers == 2
Callers == 1..MaxCallers

\* No buildFields call is running, the cache is empty and unlocked, no
\* goroutine is in cachedFields.
walkIdle ==
    [walkStart([tag |-> "", typ |-> ""]) EXCEPT !.q = << >>, !.done = TRUE]

emptyCache == [m |-> << >>, readers |-> {}, writer |-> 0]

idleCaller == [pc |-> "idle", k |-> [tag |-> "", typ |-> ""], fields |-> << >>, ok |-> FALSE]

reflIdle ==
    /\ walk = walkIdle
    /\ fieldCache = emptyCache
    /\ callers = [c \in Callers |-> idleCaller]

NoVal == OtherV

Positioning == {"GoTo", "First", "Last", "Next", "Prev"}

\* seq is 1 after a positioning call that succeeded, 2 after the
\* SetFieldValue that directly follows one, and 0 otherwise.
CallSeq(op, arg, res, val, seq) ==
    [op |-> op, arg |-> arg, res |-> res, val |-> val, seq |-> seq]

Call(op, arg, res, val) ==
    CallSeq(op, arg, res, val,
            IF op \in Positioning /\ res = Nil THEN 1
            ELSE IF op = "SetFieldValue" /\ last.seq = 1 THEN 2
            ELSE 0)

Bound == rws \in {"file", "mem"}

recCount == header.RecCount
RecCount == recCount
RecNo == recordNum
FieldCount == Len(fields)
Error == err
CodePage == codePage(header)

\* XBase.EOF and XBase.BOF, the derived predicates
EOF == recordNum > recCount \/ recCount = 0
BOF == recordNum = 0 \/ recCount = 0

calcRecSize(fs) ==
    LET RECURSIVE Sum(_)
        Sum(i) == IF i = 0 THEN 0 ELSE Sum(i - 1) + fs[i].Len
    IN  (1 + Sum(Len(fs))) % 65536

\* offsetOf with the first field at offset 0.
RECURSIVE offsetOfFromZero(_, _)
offsetOfFromZero(fs, i) ==
    IF i = 1 THEN 0 ELSE offsetOfFromZero(fs, i - 1) + fs[i - 1].Len

\* The record-relative offsets writeFields and readFields compute: 1 for
\* the first field, then the previous offset plus the previous length.
RECURSIVE offsetOf(_, _)
offsetOf(fs, i) == IF i = 1 THEN 1 ELSE offsetOf(fs, i - 1) + fs[i - 1].Len

\* makeBuf giving a buffer of spaces.
makeBufSpaces(h) == Repeat(space, h.RecSize)

\* makeBuf: make([]byte, RecSize), a buffer of zero bytes
makeBuf(h) == Zeros(h.RecSize)

\* clearBuf leaving zero bytes.
clearBufZeros(buf) == Zeros(Len(buf))

\* clearBuf: every byte of the buffer becomes a space
clearBuf(buf) == Repeat(space, Len(buf))

\* seekRecord: the stream offset of record recordNo
\* seekRecord counting records from 0.
seekRecordFromZero(h, recordNo) == h.DataOffset + h.RecSize * recordNo

seekRecord(h, recordNo) == h.DataOffset + h.RecSize * (recordNo - 1)

\* writeHeader: the header after the call (data offset and record size are
\* derived when still zero) and the stream with the header at offset 0.
writeHeader(h, fs, s) ==
    LET h1 == IF h.DataOffset = 0 THEN setFieldCount(h, Len(fs)) ELSE h
        h2 == IF h1.RecSize = 0 THEN [h1 EXCEPT !.RecSize = calcRecSize(fs)] ELSE h1
    IN  [h |-> h2, s |-> WriteAt(s, 0, headerBytes(h2))]

\* writeFields: at stream position pos, one descriptor per field and the
\* header terminator; the fields get their offsets.
writeFields(fs, s, pos) ==
    LET fs1 == [i \in 1..Len(fs) |-> [fs[i] EXCEPT !.Offset = offsetOf(fs, i)]]
        RECURSIVE Put(_, _)
        Put(i, acc) ==
            IF i > Len(fs1) THEN acc
            ELSE Put(i + 1, WriteAt(acc, pos + fieldSize * (i - 1), fieldBytes(fs1[i])))
    IN  [fs |-> fs1,
         s |-> WriteAt(Put(1, s), pos + fieldSize * Len(fs1), << headerEnd >>)]

\* readFields: reads fieldCount descriptors from data, appending each to fs
\* as it is read; a short read ends the loop with the fields read so far.
readFields(h, fs, data) ==
    LET count == fieldCount(h)
        RECURSIVE Get(_, _)
        Get(i, acc) ==
            IF i >= count THEN [fs |-> acc, err |-> Nil]
            ELSE LET b == ReadAt(data, fieldSize * i, fieldSize)
                 IN  IF Len(b) = 0 THEN [fs |-> acc, err |-> ioEOF]
                     ELSE IF Len(b) < fieldSize THEN [fs |-> acc, err |-> ErrUnexpectedEOF]
                     ELSE Get(i + 1, Append(acc, fieldDecode(b)))
        r == Get(0, fs)
    IN  [fs |-> [i \in 1..Len(r.fs) |->
                    IF i > Len(fs)
                    THEN [r.fs[i] EXCEPT !.Offset =
                             offsetOf(SubSeq(r.fs, Len(fs) + 1, Len(r.fs)), i - Len(fs))]
                    ELSE r.fs[i]],
         err |-> r.err]

\* The engine fields New and prepareReader set.
Engine(h, fs, buf, enc, dec) ==
    [header |-> h, fields |-> fs, buffer |-> buf, encoder |-> enc, decoder |-> dec]

\* SetCodePage on an engine record: a no-op for a page without translator.
applyCodePage(e, cp) ==
    IF charMapByPage(cp) = 0 THEN e
    ELSE [e EXCEPT !.encoder = charMapByPage(cp), !.decoder = charMapByPage(cp),
                   !.header = setCodePage(e.header, cp)]

\* prepareReader on stream s: the engine after the call and the error.
prepareReader(e, s) ==
    LET hr == headerRead(e.header, s)
        e1 == [e EXCEPT !.header = hr.h]
        fr == readFields(hr.h, e.fields, ReadAt(s, headerSize, Len(s)))
        e2 == [e1 EXCEPT !.fields = fr.fs]
        e3 == [e2 EXCEPT !.buffer = makeBuf(e2.header)]
    IN  IF hr.err # Nil THEN [e |-> e1, err |-> hr.err]
        ELSE IF fr.err # Nil THEN [e |-> e2, err |-> fr.err]
        ELSE [e |-> applyCodePage(e3, codePage(e3.header)), err |-> Nil]

\* New(seeker): ok is FALSE when New returns (nil, err).  An io.EOF from
\* prepareReader is not reported: the engine is returned as it then is.
New(kind, s, now) ==
    LET e0 == Engine(newHeader(now), << >>, << >>, 0, 0)
        r == prepareReader(e0, s)
    IN  IF kind = "nil" THEN [ok |-> TRUE, e |-> e0, err |-> Nil]
        ELSE IF r.err # Nil /\ r.err # ioEOF THEN [ok |-> FALSE, e |-> e0, err |-> r.err]
        ELSE [ok |-> TRUE, e |-> r.e, err |-> Nil]

\* ----------------------------------------------------------- initial states
\* A table file as the engine lays it out.
RECURSIVE Flatten(_)
Flatten(ss) == IF Len(ss) = 0 THEN << >> ELSE Head(ss) \o Flatten(Tail(ss))

TableImage(h, fs, records) ==
    headerBytes(h) \o Flatten([i \in 1..Len(fs) |-> fieldBytes(fs[i])])
        \o << headerEnd >> \o Flatten(records) \o << fileEnd >>

\* The table the engine is opened on: NAME C(2), COUNT N(2), one record
\* ("ab", 7), written on 2021-02-12.
SampleFields ==
    << NewField(<<78, 65, 77, 69>>, << FieldType_Character >>, 2, 0).f,
       NewField(<<67, 79, 85, 78, 84>>, << FieldType_Numeric >>, 2, 0).f >>

SampleRecords ==
    << << space, 97, 98, space, chZero + 7 >> >>

SampleHeader ==
    [newHeader(<<121, 2, 12>>) EXCEPT
        !.RecCount = Len(SampleRecords),
        !.DataOffset = headerSize + fieldSize * Len(SampleFields) + 1,
        !.RecSize = calcRecSize(SampleFields)]

InitialStreams == { TableImage(SampleHeader, SampleFields, SampleRecords) }

\* The state New returns: an unbound engine, or one opened on a table.
InitEngine(kind, s, now) ==
    LET r == New(kind, s, now)
    IN  /\ r.ok
        /\ header = r.e.header
        /\ fields = r.e.fields
        /\ buffer = r.e.buffer
        /\ encoder = r.e.encoder
        /\ decoder = r.e.decoder
        /\ rws = kind
        /\ stream = s
        /\ err = Nil
        /\ recordNum = 0
        /\ isAdd = FALSE
        /\ isMod = FALSE
        /\ readStep = 0
        /\ writeStep = 0
        /\ reflIdle
        /\ last = CallSeq("New", 0, r.err, NoVal, 0)

Init ==
    \/ InitEngine("nil", << >>, Today)
    \/ \E s \in InitialStreams : InitEngine("file", s, Today)

\* ------------------------------------------------------------------ inputs
\* AddField arguments: name, type, length, decimals.  "Name" C 2;
\* "BAD" X 10 (rejected by NewField).
FieldInputs ==
    { << <<78, 97, 109, 101>>, <<67>>, 2, 0 >>,
      << <<66, 65, 68>>, <<88>>, 10, 0 >> }

\* SetFieldValue arguments.  Values: "a", which fits the C fields.
\* AllValues adds "abc" (too long), 7, true, and a value of a type setValue
\* does not support.
Values == { StrV(<<97>>) }
AllValues == Values \cup { StrV(<<97, 98, 99>>), IntV(7), BoolV(TRUE), OtherV }

\* What the environment does to the writes of a call: none fails, or the
\* named write fails (nothing is written by a failed write).
SaveFaults == {"none", "write"}
FlushFaults == {"none", "header", "end"}

\* ----------------------------------------------------------------- actions
\* AddField: the descriptor is appended whenever NewField accepts it.  (The
\* doc comment has it used only before a file is created; the code does
\* not test that.)
AddField(in) ==
    LET r == NewField(in[1], in[2], in[3], in[4])
    IN  /\ fields' = IF r.err = Nil THEN Append(fields, r.f) ELSE fields
        /\ last' = Call("AddField", 0, r.err, NoVal)
        /\ UNCHANGED << reflVars, writeStep, readStep, header, rws, stream, buffer, err, recordNum, isAdd, isMod,
                        encoder, decoder >>

\* checkFields
checkFields(fs) == IF Len(fs) = 0 THEN Err("file structure undefined") ELSE Nil

\* CreateFile: os.Create gives an empty file; header, descriptors and the
\* header terminator are written; the buffer is allocated.
CreateFile ==
    LET wh == writeHeader(header, fields, << >>)
        wf == writeFields(fields, wh.s, headerSize)
    IN  /\ rws = "nil"
        /\ IF checkFields(fields) # Nil
           THEN /\ last' = Call("CreateFile", 0, checkFields(fields), NoVal)
                /\ UNCHANGED << header, fields, rws, stream, buffer, isMod >>
           ELSE /\ rws' = "file"
                /\ header' = wh.h
                /\ fields' = wf.fs
                /\ stream' = wf.s
                /\ buffer' = makeBuf(wh.h)
                /\ isMod' = TRUE
                /\ last' = Call("CreateFile", 0, Nil, NoVal)
        /\ UNCHANGED << reflVars, writeStep, readStep, err, recordNum, isAdd, encoder, decoder >>

\* goToCheck taking the record after the last one as in range.
goToCheckPastEnd(recNo, count) ==
    IF recNo < 1 THEN BOFError
    ELSE IF recNo > count + 1 THEN ioEOF
    ELSE Nil

\* GoTo, the range check: the sentinel returned for a record number
\* outside 1..count.
goToCheck(recNo, count) ==
    IF recNo < 1 THEN BOFError
    ELSE IF recNo > count THEN ioEOF
    ELSE Nil

\* GoTo and its aliases: op names the method called.
GoToAs(op, recNo) ==
    LET data == ReadAt(stream, seekRecord(header, recNo), Len(buffer))
    IN  /\ Bound
        /\ IF goToCheck(recNo, recCount) # Nil
           THEN /\ last' = Call(op, recNo, goToCheck(recNo, recCount), NoVal)
                /\ UNCHANGED << recordNum, buffer >>
           ELSE /\ recordNum' = recNo
                /\ buffer' = data \o SubSeq(buffer, Len(data) + 1, Len(buffer))
                /\ last' = Call(op, recNo,
                                IF Len(data) # Len(buffer) THEN ioEOF ELSE Nil, NoVal)
        /\ UNCHANGED << reflVars, writeStep, readStep, header, fields, rws, stream, err, isAdd, isMod, encoder, decoder >>

GoTo(recNo) == GoToAs("GoTo", recNo)
First == GoToAs("First", 1)
Last == GoToAs("Last", recCount)
Next_ == GoToAs("Next", recordNum + 1)
Prev == GoToAs("Prev", recordNum - 1)

\* fieldByNo
fieldInRange(fieldNo) == fieldNo >= 1 /\ fieldNo <= Len(fields)

\* wrapFieldError: the error recorded for a panic with error r in op.
wrapFieldError(op, fieldNo, r) ==
    IF ~fieldInRange(fieldNo)
    THEN [kind |-> r.kind, op |-> op, fieldNo |-> fieldNo, named |-> FALSE, name |-> << >>]
    ELSE [kind |-> r.kind, op |-> op, fieldNo |-> fieldNo, named |-> TRUE,
          name |-> name(fields[fieldNo])]

\* field.buffer / field.setBuffer slice recordBuf[Offset : Offset+Len]: a
\* run-time panic when the record buffer is shorter, which wrapFieldError
\* recovers like any other.
sliceInBuffer(f, recordBuf) == f.Offset + f.Len <= Len(recordBuf)

ErrSliceBounds == Err("runtime error: slice bounds out of range")

\* SetFieldValueResult without the test of the sticky error.
SetFieldValueResultNoSticky(fieldNo, value) ==
    IF ~fieldInRange(fieldNo)
    THEN [buf |-> buffer,
          err |-> wrapFieldError("SetFieldValue", fieldNo, Err("field number out of range"))]
    ELSE LET r == setValue(fields[fieldNo], buffer, value, encoder)
         IN  IF r.err # Nil
             THEN [buf |-> buffer, err |-> wrapFieldError("SetFieldValue", fieldNo, r.err)]
             ELSE IF ~sliceInBuffer(fields[fieldNo], buffer)
             THEN [buf |-> buffer,
                   err |-> wrapFieldError("SetFieldValue", fieldNo, ErrSliceBounds)]
             ELSE [buf |-> r.buf, err |-> Nil]

\* The outcome of a field call: the sticky error when set short-circuits.
\* r is the codec's result for a field in range.
SetFieldValueResult(fieldNo, value) ==
    IF err # Nil THEN [buf |-> buffer, err |-> err]
    ELSE IF ~fieldInRange(fieldNo)
    THEN [buf |-> buffer,
          err |-> wrapFieldError("SetFieldValue", fieldNo, Err("field number out of range"))]
    ELSE LET r == setValue(fields[fieldNo], buffer, value, encoder)
         IN  IF r.err # Nil
             THEN [buf |-> buffer, err |-> wrapFieldError("SetFieldValue", fieldNo, r.err)]
             ELSE IF ~sliceInBuffer(fields[fieldNo], buffer)
             THEN [buf |-> buffer,
                   err |-> wrapFieldError("SetFieldValue", fieldNo, ErrSliceBounds)]
             ELSE [buf |-> r.buf, err |-> Nil]

SetFieldValue(fieldNo, value) ==
    /\ Bound
    /\ \E r \in {SetFieldValueResult(fieldNo, value)} :
        /\ buffer' = r.buf
        /\ err' = r.err
        /\ last' = Call("SetFieldValue", fieldNo, Nil, value)
        /\ UNCHANGED << reflVars, writeStep, readStep, header, fields, rws, stream, recordNum, isAdd, isMod,
                        encoder, decoder >>

\* FieldValueAsString / Int / Float / Bool / Date: the value returned (the
\* zero value of the named result when the call returns early or panics)
\* and the sticky error after the call.
ZeroOf(op) ==
    CASE op = "FieldValueAsString" -> StrV(<< >>)
      [] op = "FieldValueAsInt" -> IntV(0)
      [] op = "FieldValueAsFloat" -> FloatV(0, 0)
      [] op = "FieldValueAsBool" -> BoolV(FALSE)
      [] op = "FieldValueAsDate" -> DateV(1, 1, 1)

Getters ==
    {"FieldValueAsString", "FieldValueAsInt", "FieldValueAsFloat",
     "FieldValueAsBool", "FieldValueAsDate"}

\* The field type a getter checks before it slices the buffer
\* (FieldValueAsString checks none).
GetterType(op) ==
    CASE op = "FieldValueAsInt" -> FieldType_Numeric
      [] op = "FieldValueAsFloat" -> FieldType_Float
      [] op = "FieldValueAsBool" -> FieldType_Logical
      [] op = "FieldValueAsDate" -> FieldType_Date
      [] OTHER -> 0

FieldValueResult(op, fieldNo) ==
    IF err # Nil THEN [val |-> ZeroOf(op), err |-> err]
    ELSE IF ~fieldInRange(fieldNo)
    THEN [val |-> ZeroOf(op),
          err |-> wrapFieldError(op, fieldNo, Err("field number out of range"))]
    ELSE LET f == fields[fieldNo]
             typeErr == IF op = "FieldValueAsString" THEN Nil
                        ELSE checkType(f, GetterType(op))
             r == IF ~sliceInBuffer(f, buffer)
                  THEN [val |-> ZeroOf(op),
                        err |-> IF typeErr # Nil THEN typeErr ELSE ErrSliceBounds]
                  ELSE CASE op = "FieldValueAsString" -> stringValue(f, buffer, decoder)
                         [] op = "FieldValueAsInt" -> intValue(f, buffer)
                         [] op = "FieldValueAsFloat" -> floatValue(f, buffer)
                         [] op = "FieldValueAsBool" -> boolValue(f, buffer)
                         [] op = "FieldValueAsDate" -> dateValue(f, buffer)
         IN  IF r.err # Nil
             THEN [val |-> r.val, err |-> wrapFieldError(op, fieldNo, r.err)]
             ELSE [val |-> r.val, err |-> Nil]

FieldValueAs(op, fieldNo) ==
    /\ Bound
    /\ \E r \in {FieldValueResult(op, fieldNo)} :
        /\ err' = r.err
        /\ last' = Call(op, fieldNo, Nil, r.val)
        /\ UNCHANGED << reflVars, writeStep, readStep, header, fields, rws, stream, buffer, recordNum, isAdd, isMod,
                        encoder, decoder >>

\* Add
Add ==
    /\ Bound
    /\ IF isAdd
       THEN /\ last' = Call("Add", 0, Err("current record is add model,Save it first"), NoVal)
            /\ UNCHANGED << isAdd, buffer >>
       ELSE /\ isAdd' = TRUE
            /\ buffer' = clearBuf(buffer)
            /\ last' = Call("Add", 0, Nil, NoVal)
    /\ UNCHANGED << reflVars, writeStep, readStep, header, fields, rws, stream, err, recordNum, isMod, encoder, decoder >>

\* Clear
Clear ==
    /\ Bound
    /\ buffer' = clearBuf(buffer)
    /\ err' = Nil
    /\ isAdd' = FALSE
    /\ last' = Call("Clear", 0, Nil, NoVal)
    /\ UNCHANGED << reflVars, writeStep, readStep, header, fields, rws, stream, recordNum, isMod, encoder, decoder >>

\* saveAdd without the increment of the record count.
saveAddSameCount(h, s, buf, rn) ==
    [header |-> h,
     stream |-> WriteAt(s, seekRecord(h, h.RecCount + 1), buf),
     recordNum |-> rn + 1]

\* Save, adding branch: the record is written after the last one, then the
\* record number and the record count are incremented.
saveAdd(h, s, buf, rn) ==
    [header |-> [h EXCEPT !.RecCount = @ + 1],
     stream |-> WriteAt(s, seekRecord(h, h.RecCount + 1), buf),
     recordNum |-> rn + 1]

\* Save, edit branch: the current record is overwritten.
saveEdit(h, s, buf, rn) ==
    [header |-> h, stream |-> WriteAt(s, seekRecord(h, rn), buf), recordNum |-> rn]

\* SaveResult without the test of the sticky error.
SaveResultNoSticky(fault) ==
    LET same == [header |-> header, stream |-> stream, recordNum |-> recordNum]
        out(st, add, mod, res) ==
            [st |-> st, isAdd |-> add, isMod |-> mod, res |-> res]
    IN  IF isAdd
        THEN IF fault = "write" THEN out(same, isAdd, isMod, ErrWrite)
             ELSE out(saveAdd(header, stream, buffer, recordNum), FALSE, TRUE, Nil)
        ELSE IF recordNum = 0 THEN out(same, isAdd, isMod, Nil)
        ELSE IF fault = "write" THEN out(same, isAdd, isMod, ErrWrite)
        ELSE out(saveEdit(header, stream, buffer, recordNum), isAdd, TRUE, Nil)

\* Save: the engine state after the call and the error returned.  The call
\* is recorded with argument 1 when the engine was in adding mode.
SaveResult(fault) ==
    LET same == [header |-> header, stream |-> stream, recordNum |-> recordNum]
        out(st, add, mod, res) ==
            [st |-> st, isAdd |-> add, isMod |-> mod, res |-> res]
    IN  IF err # Nil THEN out(same, isAdd, isMod, err)
        ELSE IF isAdd
        THEN IF fault = "write" THEN out(same, isAdd, isMod, ErrWrite)
             ELSE out(saveAdd(header, stream, buffer, recordNum), FALSE, TRUE, Nil)
        ELSE IF recordNum = 0 THEN out(same, isAdd, isMod, Nil)
        ELSE IF fault = "write" THEN out(same, isAdd, isMod, ErrWrite)
        ELSE out(saveEdit(header, stream, buffer, recordNum), isAdd, TRUE, Nil)

Save(fault) ==
    /\ Bound
    /\ \E r \in {SaveResult(fault)} :
        /\ isAdd => recCount < MaxRec
        /\ header' = r.st.header
        /\ stream' = r.st.stream
        /\ recordNum' = r.st.recordNum
        /\ isAdd' = r.isAdd
        /\ isMod' = r.isMod
        /\ last' = Call("Save", IF isAdd THEN 1 ELSE 0, r.res, NoVal)
        /\ UNCHANGED << reflVars, writeStep, readStep, fields, rws, buffer, err, encoder, decoder >>

\* writeFileEnd leaving the tail alone when the size differs from the full
\* size, terminator included.
writeFileEndAtFullSize(h, kind, s, fault) ==
    LET size == h.DataOffset + h.RecCount * h.RecSize + 1
    IN  IF kind = "file" /\ Len(s) # size THEN [s |-> s, err |-> Nil]
        ELSE IF fault = "end" THEN [s |-> s, err |-> ErrWrite]
        ELSE [s |-> WriteAt(s, Len(s), << fileEnd >>), err |-> Nil]

\* writeFileEnd: the stream after the call and the error.  For an fs.File
\* the size is checked first and the tail is left alone when it differs.
writeFileEnd(h, kind, s, fault) ==
    LET size == h.DataOffset + h.RecCount * h.RecSize + 1
    IN  IF kind = "file" /\ Len(s) + 1 # size THEN [s |-> s, err |-> Nil]
        ELSE IF fault = "end" THEN [s |-> s, err |-> ErrWrite]
        ELSE [s |-> WriteAt(s, Len(s), << fileEnd >>), err |-> Nil]

\* FlushResult without the test of the modified flag.
FlushResultAlways(fault) ==
    LET h1 == setModDate(header, Today)
        wh == writeHeader(h1, fields, stream)
        we == writeFileEnd(wh.h, rws, wh.s, fault)
    IN  IF fault = "header"
        THEN [header |-> wh.h, stream |-> stream, isMod |-> isMod, err |-> ErrWrite]
        ELSE IF we.err # Nil
        THEN [header |-> wh.h, stream |-> we.s, isMod |-> isMod, err |-> we.err]
        ELSE [header |-> wh.h, stream |-> we.s, isMod |-> FALSE, err |-> Nil]

\* Flush: header, stream and modified flag after the call, and the error.
\* The call is recorded with argument 1 when modifications were pending.
FlushResult(fault) ==
    LET h1 == setModDate(header, Today)
        wh == writeHeader(h1, fields, stream)
        we == writeFileEnd(wh.h, rws, wh.s, fault)
    IN  IF ~isMod
        THEN [header |-> header, stream |-> stream, isMod |-> isMod, err |-> Nil]
        ELSE IF fault = "header"
        THEN [header |-> wh.h, stream |-> stream, isMod |-> isMod, err |-> ErrWrite]
        ELSE IF we.err # Nil
        THEN [header |-> wh.h, stream |-> we.s, isMod |-> isMod, err |-> we.err]
        ELSE [header |-> wh.h, stream |-> we.s, isMod |-> FALSE, err |-> Nil]

\* The bound on the stream's length (see MaxTail).
StreamRoom == Len(stream) < seekRecord(header, MaxRec + 1) + MaxTail

Flush(fault) ==
    /\ Bound
    /\ StreamRoom
    /\ \E r \in {FlushResult(fault)} :
        /\ header' = r.header
        /\ stream' = r.stream
        /\ isMod' = r.isMod
        /\ last' = Call("Flush", IF isMod THEN 1 ELSE 0, r.err, NoVal)
        /\ UNCHANGED << reflVars, writeStep, readStep, fields, rws, buffer, err, recordNum, isAdd, encoder, decoder >>

\* Close: the stream handle after Flush returned flushErr.
closeStream(kind, flushErr) ==
    IF flushErr # Nil THEN kind
    ELSE IF kind = "file" THEN "closed" ELSE kind

Close(fault) ==
    /\ Bound
    /\ StreamRoom
    /\ \E r \in {FlushResult(fault)} :
        /\ header' = r.header
        /\ stream' = r.stream
        /\ isMod' = r.isMod
        /\ rws' = closeStream(rws, r.err)
        /\ last' = Call("Close", IF isMod THEN 1 ELSE 0, r.err, NoVal)
        /\ UNCHANGED << reflVars, writeStep, readStep, fields, buffer, err, recordNum, isAdd, encoder, decoder >>

\* Open on a file no engine is bound to: a new engine on its bytes, or no
\* engine when New returns an error.
Open ==
    /\ rws = "closed"
    /\ \E r \in {New("file", stream, Today)} :
        /\ IF r.ok
           THEN /\ header' = r.e.header
                /\ fields' = r.e.fields
                /\ buffer' = r.e.buffer
                /\ encoder' = r.e.encoder
                /\ decoder' = r.e.decoder
                /\ rws' = "file"
                /\ err' = Nil
                /\ recordNum' = 0
                /\ isAdd' = FALSE
                /\ isMod' = FALSE
                /\ readStep' = 0
                /\ writeStep' = 0
                /\ UNCHANGED reflVars
           ELSE UNCHANGED << reflVars, writeStep, readStep, header, fields, buffer, encoder, decoder, rws, err,
                             recordNum, isAdd, isMod >>
        /\ last' = Call("Open", 0, r.err, NoVal)
        /\ UNCHANGED stream

\* SetCodePage
SetCodePage(cp) ==
    /\ \E e \in {applyCodePage(Engine(header, fields, buffer, encoder, decoder), cp)} :
        /\ header' = e.header
        /\ encoder' = e.encoder
        /\ decoder' = e.decoder
    /\ last' = Call("SetCodePage", cp, Nil, NoVal)
    /\ UNCHANGED << reflVars, writeStep, readStep, fields, rws, stream, buffer, err, recordNum, isAdd, isMod >>

\* SetCodePage arguments: every page of cPages, 0, and numbers that are no
\* page of cPages (936; 1, the file tag of page 437; 693, whose low byte is
\* the low byte of 437).
PageInputs == { c[2] : c \in cPages } \cup { 0, 1, 693, 936 }

\* A []string returned by Read: the strings, or the nil slice.
StrsV(ss) == [t |-> "strings", s |-> ss, n |-> 0, b |-> FALSE]
NilV == [t |-> "nil", s |-> << >>, n |-> 0, b |-> FALSE]

\* Fields: the names of the fields, nil when there is none.
Fields == IF Len(fields) = 0 THEN NilV ELSE StrsV([i \in 1..Len(fields) |-> name(fields[i])])

\* db.Next() as readRecord calls it: the record number and the buffer after
\* GoTo(recordNum + 1), and the error it returns.
nextResult ==
    LET recNo == recordNum + 1
        data == ReadAt(stream, seekRecord(header, recNo), Len(buffer))
    IN  IF goToCheck(recNo, recCount) # Nil
        THEN [recordNum |-> recordNum, buffer |-> buffer, err |-> goToCheck(recNo, recCount)]
        ELSE [recordNum |-> recNo,
              buffer |-> data \o SubSeq(buffer, Len(data) + 1, Len(buffer)),
              err |-> IF Len(data) # Len(buffer) THEN ioEOF ELSE Nil]

\* readRecord: the sticky error when set; else the trimmed text of every
\* field of the record buffer, and the engine moved on by Next.
readRecord ==
    IF err # Nil
    THEN [val |-> NilV, err |-> err, recordNum |-> recordNum, buffer |-> buffer]
    ELSE [val |-> IF Len(fields) = 0 THEN NilV
                  ELSE StrsV([i \in 1..Len(fields) |-> TrimSpace(buffer_(fields[i], buffer))]),
          err |-> nextResult.err,
          recordNum |-> nextResult.recordNum,
          buffer |-> nextResult.buffer]

\* The most Read calls in a row the model follows after the last record.
ReadsPastEnd == 3

\* Read: the field names on step 0, a record on step 2; a record pointer
\* that has moved forces step 2.  last.arg counts the Read calls since the
\* table was opened while nothing but Read has been called (0 otherwise).
\* (readRecord slices the buffer outside any recover: the fields lie
\* within it.)
Read ==
    LET step == IF recordNum # 0 THEN 2 ELSE readStep
        r == readRecord
        k == IF last.op \in {"New", "Open"} /\ last.res = Nil THEN 1
             ELSE IF last.op = "Read" /\ last.arg >= 1 THEN last.arg + 1
             ELSE 0
    IN  /\ Bound
        /\ \A i \in 1..Len(fields) : sliceInBuffer(fields[i], buffer)
        /\ k <= 1 + recCount + ReadsPastEnd
        /\ IF step = 0
           THEN /\ readStep' = 2
                /\ last' = Call("Read", k, Nil, Fields)
                /\ UNCHANGED << recordNum, buffer >>
           ELSE /\ readStep' = step
                /\ recordNum' = r.recordNum
                /\ buffer' = r.buffer
                /\ last' = Call("Read", k, r.err, r.val)
        /\ UNCHANGED << reflVars, writeStep, header, fields, rws, stream, err, isAdd, isMod,
                        encoder, decoder >>

\* -------------------------------------------------------------------- Write
\* A []byte value.
BytesV(s) == [t |-> "bytes", s |-> s, n |-> 0, b |-> FALSE]

\* A []interface{} value.
ValuesV(vs) == [t |-> "values", s |-> vs, n |-> 0, b |-> FALSE]

\* Write, the loop over the values: value i, unless nil, is stored in field
\* i of the buffer; the loop ends at the first error.
RECURSIVE setValues(_, _, _, _, _)
setValues(fs, buf, input, i, enc) ==
    IF i > Len(input) THEN [buf |-> buf, err |-> Nil]
    ELSE IF input[i] = NilV THEN setValues(fs, buf, input, i + 1, enc)
    ELSE LET r == setValue(fs[i], buf, input[i], enc)
         IN  IF r.err # Nil THEN r ELSE setValues(fs, r.buf, input, i + 1, enc)

\* Write, step 0: the input is the field count and the descriptors' bytes;
\* the header and the descriptors are written and the buffer is made.
writeFieldTable(input) ==
    LET h0 == setFieldCount(header, input[1].n)
        fr == readFields(h0, fields, input[2].s)
        wh == writeHeader(h0, fr.fs, stream)
        wf == writeFields(fr.fs, wh.s, headerSize)
        same == [header |-> h0, fields |-> fr.fs, stream |-> stream, buffer |-> buffer,
                 recordNum |-> recordNum, isAdd |-> isAdd, isMod |-> isMod, err |-> err,
                 writeStep |-> 0, step |-> 0, res |-> fr.err]
    IN  IF fr.err # Nil THEN same
        ELSE [same EXCEPT !.header = wh.h, !.fields = wf.fs, !.stream = wf.s,
                          !.buffer = makeBuf(wh.h), !.writeStep = 2, !.res = Nil]

\* Write, step 2: Add, the values, Save and Flush.  step tells how far the
\* call went: 1 Add failed, 2 a value was not stored, 3 Save failed, 4 Flush
\* was called.
writeRecord(input) ==
    LET same == [header |-> header, fields |-> fields, stream |-> stream,
                 buffer |-> buffer, recordNum |-> recordNum, isAdd |-> isAdd,
                 isMod |-> isMod, err |-> err, writeStep |-> 2, step |-> 1,
                 res |-> Err("current record is add model,Save it first")]
        sv == setValues(fields, clearBuf(buffer), input, 1, encoder)
        sa == saveAdd(header, stream, sv.buf, recordNum)
        wh == writeHeader(setModDate(sa.header, Today), fields, sa.stream)
        we == writeFileEnd(wh.h, rws, wh.s, "none")
    IN  IF isAdd THEN same
        ELSE IF sv.err # Nil
        THEN [same EXCEPT !.isAdd = TRUE, !.buffer = sv.buf, !.step = 2, !.res = sv.err]
        ELSE IF err # Nil
        THEN [same EXCEPT !.isAdd = TRUE, !.buffer = sv.buf, !.step = 3, !.res = err]
        ELSE [same EXCEPT !.header = wh.h, !.stream = we.s, !.buffer = sv.buf,
                          !.recordNum = sa.recordNum, !.isAdd = FALSE, !.isMod = FALSE,
                          !.err = Nil, !.step = 4, !.res = we.err]

\* Write(input).  With no field loaded and writeStep 0 the input has to be
\* an int and a []byte; with fields loaded it has to be no longer than the
\* fields (any other input makes Write panic).  The call is recorded with
\* the step it reached.
Write(input) ==
    /\ Bound
    /\ StreamRoom
    /\ LET two == Len(fields) # 0 \/ writeStep = 2
       IN  /\ two => Len(input) <= Len(fields) /\ (~isAdd => recCount < MaxRec)
           /\ ~two => /\ writeStep = 0
                      /\ Len(input) = 2 /\ input[1].t = "int" /\ input[2].t = "bytes"
           /\ \E r \in {IF two THEN writeRecord(input) ELSE writeFieldTable(input)} :
                /\ header' = r.header
                /\ fields' = r.fields
                /\ stream' = r.stream
                /\ buffer' = r.buffer
                /\ recordNum' = r.recordNum
                /\ isAdd' = r.isAdd
                /\ isMod' = r.isMod
                /\ err' = r.err
                /\ writeStep' = r.writeStep
                /\ last' = Call("Write", r.step, r.res, ValuesV(input))
    /\ UNCHANGED << reflVars, readStep, rws, encoder, decoder >>

\* ---------------------------------------------------------- reflector calls
engineVars ==
    << header, fields, rws, stream, buffer, err, recordNum, isAdd, isMod, encoder,
       decoder, readStep, writeStep, last >>

\* The keys buildFields is called with: every struct type under the tag
\* names "dbf" and "csv".
WalkKeys == { [tag |-> g, typ |-> t] : g \in {"dbf", "csv"}, t \in DOMAIN StructTypes }

\* The walk is followed while the node taken from the queue has an access
\* path of at most MaxWalkDepth indices.
MaxWalkDepth == 3

\* buildFields(k) is called.
StartWalk(k) ==
    /\ walk.done
    /\ walk' = walkStart(k)
    /\ UNCHANGED << engineVars, fieldCache, callers >>

\* buildFields takes the next node from the queue, or returns the plan.
Dequeue ==
    /\ ~walk.done /\ ~walk.cur
    /\ Len(walk.q) > 0 => Len(Head(walk.q).index) <= MaxWalkDepth
    /\ walk' = walkDequeue(walk)
    /\ UNCHANGED << engineVars, fieldCache, callers >>

\* buildFields enumerates the next field of the node.
EnumField ==
    /\ ~walk.done /\ walk.cur
    /\ walk' = walkField(walk)
    /\ UNCHANGED << engineVars, fieldCache, callers >>

\* cachedFields(k) as one goroutine runs it, one step at a time: pc names
\* the statement the goroutine is at, enabled tells whether the statement
\* can be taken now (RLock waits for the writer to leave, Lock waits for
\* the readers and the writer to leave). At "read" and at "write" the
\* goroutine is accessing the map.
cachedFieldsUnlocked(cl, cache, c) ==
    CASE cl.pc = "RLock" ->
           [enabled |-> cache.writer = 0,
            caller |-> [cl EXCEPT !.pc = "read"],
            cache |-> [cache EXCEPT !.readers = @ \cup {c}]]
      [] cl.pc = "read" ->
           [enabled |-> TRUE,
            caller |-> [cl EXCEPT !.pc = "RUnlock",
                                  !.ok = cl.k \in DOMAIN cache.m,
                                  !.fields = IF cl.k \in DOMAIN cache.m
                                             THEN cache.m[cl.k] ELSE << >>],
            cache |-> cache]
      [] cl.pc = "RUnlock" ->
           [enabled |-> TRUE,
            caller |-> [cl EXCEPT !.pc = IF cl.ok THEN "return" ELSE "build"],
            cache |-> [cache EXCEPT !.readers = @ \ {c}]]
      [] cl.pc = "build" ->
           [enabled |-> TRUE,
            caller |-> [cl EXCEPT !.pc = "write", !.fields = buildFields(cl.k)],
            cache |-> cache]
      [] cl.pc = "write" ->
           [enabled |-> TRUE,
            caller |-> [cl EXCEPT !.pc = "return"],
            cache |-> [cache EXCEPT !.m = [x \in DOMAIN cache.m \cup {cl.k} |->
                                             IF x = cl.k THEN cl.fields ELSE cache.m[x]]]]
      [] OTHER -> [enabled |-> FALSE, caller |-> cl, cache |-> cache]

cachedFieldsStep(cl, cache, c) ==
    CASE cl.pc = "RLock" ->
           [enabled |-> cache.writer = 0,
            caller |-> [cl EXCEPT !.pc = "read"],
            cache |-> [cache EXCEPT !.readers = @ \cup {c}]]
      [] cl.pc = "read" ->
           [enabled |-> TRUE,
            caller |-> [cl EXCEPT !.pc = "RUnlock",
                                  !.ok = cl.k \in DOMAIN cache.m,
                                  !.fields = IF cl.k \in DOMAIN cache.m
                                             THEN cache.m[cl.k] ELSE << >>],
            cache |-> cache]
      [] cl.pc = "RUnlock" ->
           [enabled |-> TRUE,
            caller |-> [cl EXCEPT !.pc = IF cl.ok THEN "return" ELSE "build"],
            cache |-> [cache EXCEPT !.readers = @ \ {c}]]
      [] cl.pc = "build" ->
           [enabled |-> TRUE,
            caller |-> [cl EXCEPT !.pc = "Lock", !.fields = buildFields(cl.k)],
            cache |-> cache]
      [] cl.pc = "Lock" ->
           [enabled |-> cache.readers = {} /\ cache.writer = 0,
            caller |-> [cl EXCEPT !.pc = "write"],
            cache |-> [cache EXCEPT !.writer = c]]
      [] cl.pc = "write" ->
           [enabled |-> TRUE,
            caller |-> [cl EXCEPT !.pc = "Unlock"],
            cache |-> [cache EXCEPT !.m = [x \in DOMAIN cache.m \cup {cl.k} |->
                                             IF x = cl.k THEN cl.fields ELSE cache.m[x]]]]
      [] cl.pc = "Unlock" ->
           [enabled |-> TRUE,
            caller |-> [cl EXCEPT !.pc = "return"],
            cache |-> [cache EXCEPT !.writer = 0]]
      [] OTHER -> [enabled |-> FALSE, caller |-> cl, cache |-> cache]

\* The keys cachedFields is called with.
CacheKeys ==
    { [tag |-> "dbf", typ |-> "Tie"], [tag |-> "csv", typ |-> "Tie"],
      [tag |-> "dbf", typ |-> "Amb"] }

\* Goroutine c calls cachedFields(k).
CallCachedFields(c, k) ==
    /\ callers[c].pc = "idle"
    /\ callers' = [callers EXCEPT ![c] = [idleCaller EXCEPT !.pc = "RLock", !.k = k]]
    /\ UNCHANGED << engineVars, walk, fieldCache >>

\* Goroutine c takes the statement of cachedFields it is at.
cachedFieldsAt(c, pc) ==
    /\ callers[c].pc = pc
    /\ \E r \in {cachedFieldsStep(callers[c], fieldCache, c)} :
        /\ r.enabled
        /\ callers' = [callers EXCEPT ![c] = r.caller]
        /\ fieldCache' = r.cache
    /\ UNCHANGED << engineVars, walk >>

RLock(c) == cachedFieldsAt(c, "RLock")
ReadCache(c) == cachedFieldsAt(c, "read")
RUnlock(c) == cachedFieldsAt(c, "RUnlock")
BuildPlan(c) == cachedFieldsAt(c, "build")
Lock(c) == cachedFieldsAt(c, "Lock")
StoreCache(c) == cachedFieldsAt(c, "write")
Unlock(c) == cachedFieldsAt(c, "Unlock")

\* cachedFields returns to goroutine c, which keeps the plan it obtained
\* until its next call.
ReturnFields(c) ==
    /\ callers[c].pc = "return"
    /\ callers' = [callers EXCEPT ![c].pc = "idle"]
    /\ UNCHANGED << engineVars, walk, fieldCache >>

\* The calls on the cursor, the record and the file, every write of which
\* succeeds, from an unbound engine or an engine opened on a table file.
\* AddField is called as documented, before a file is created.
Next ==
    \/ \E in \in FieldInputs : rws = "nil" /\ Len(fields) < MaxFields /\ AddField(in)
    \/ CreateFile
    \/ \E n \in 0..(recCount + 1) : GoTo(n)
    \/ \E i \in 1..Len(fields), v \in Values : SetFieldValue(i, v)
    \/ Add
    \/ Clear
    \/ Save("none")
    \/ Flush("none")
    \/ Close("none")
    \/ Open

Spec == Init /\ [][Next]_vars

\* The positioning calls, on a table that grows by appended records.
InitCursor == \E s \in InitialStreams : InitEngine("file", s, Today)

NextCursor ==
    \/ \E n \in 0..(recCount + 1) : GoTo(n)
    \/ First
    \/ Last
    \/ Next_
    \/ Prev
    \/ Add
    \/ Save("none")

SpecCursor == InitCursor /\ [][NextCursor]_vars

\* The same calls on an engine opened on an in-memory read-write-seeker
\* (neither an fs.File nor an io.Closer).
InitMem == \E s \in InitialStreams : InitEngine("mem", s, Today)

NextMem ==
    \/ \E n \in 0..(recCount + 1) : GoTo(n)
    \/ \E i \in 1..Len(fields), v \in Values : SetFieldValue(i, v)
    \/ Add
    \/ Clear
    \/ Save("none")
    \/ Flush("none")
    \/ Close("none")

SpecMem == InitMem /\ [][NextMem]_vars

\* The calls that write, on a file whose writes may fail.
InitFault == \E s \in InitialStreams : InitEngine("file", s, Today)

NextFault ==
    \/ \E n \in 1..recCount : GoTo(n)
    \/ Add
    \/ \E f \in SaveFaults : Save(f)
    \/ \E f \in FlushFaults : Flush(f)
    \/ \E f \in FlushFaults : Close(f)
    \/ Open

SpecFault == InitFault /\ [][NextFault]_vars

\* The field calls on one record of the opened table: every getter and
\* SetFieldValue with every value and field number, in and out of range.
InitField == \E s \in InitialStreams : InitEngine("file", s, Today)

NextField ==
    \/ \E i \in 0..(Len(fields) + 1), v \in AllValues : SetFieldValue(i, v)
    \/ \E op \in Getters, i \in 0..(Len(fields) + 1) : FieldValueAs(op, i)
    \/ First
    \/ Clear
    \/ Save("none")

SpecField == InitField /\ [][NextField]_vars

\* The calls that read: positioning, the getters and Close, with Open to go
\* on after a Close, on a table of two records ("ab", 7) and ("a", 3).
ReadRecords ==
    SampleRecords \o << << space, 97, space, space, chZero + 3 >> >>

ReadStreams ==
    { TableImage([SampleHeader EXCEPT !.RecCount = Len(ReadRecords)],
                 SampleFields, ReadRecords) }

InitRead == \E s \in ReadStreams : InitEngine("file", s, Today)

NextRead ==
    \/ \E n \in 0..(recCount + 1) : GoTo(n)
    \/ First
    \/ Last
    \/ Next_
    \/ Prev
    \/ \E op \in Getters, i \in 0..(Len(fields) + 1) : FieldValueAs(op, i)
    \/ Close("none")
    \/ Open

SpecRead == InitRead /\ [][NextRead]_vars

\* The calls on a table the engine creates, AddField at any time: up to
\* MaxFields + 1 fields in all, values set in the first of them.
InitCreate == InitEngine("nil", << >>, Today)

NextCreate ==
    \/ \E in \in FieldInputs : Len(fields) <= MaxFields /\ AddField(in)
    \/ CreateFile
    \/ \E n \in 0..(recCount + 1) : GoTo(n)
    \/ \E v \in Values : Len(fields) >= 1 /\ SetFieldValue(1, v)
    \/ Add
    \/ Save("none")
    \/ Flush("none")

SpecCreate == InitCreate /\ [][NextCreate]_vars

\* Opening files of any content: the table of two records, the same bytes
\* with a file-type byte other than 0x03, and files cut short.
OpenStreams ==
    LET good == CHOOSE s \in ReadStreams : TRUE
    IN  { good,
          << 0 >> \o Tail(good),
          << 131 >> \o Tail(good),
          << 0 >> \o SubSeq(good, 2, headerSize),
          SubSeq(good, 1, headerSize + fieldSize),
          SubSeq(good, 1, headerSize),
          SubSeq(good, 1, headerSize - 1),
          << >> }

InitOpen ==
    /\ stream \in OpenStreams
    /\ rws = "closed"
    /\ header = newHeader(Today)
    /\ fields = << >>
    /\ buffer = << >>
    /\ encoder = 0
    /\ decoder = 0
    /\ err = Nil
    /\ recordNum = 0
    /\ isAdd = FALSE
    /\ isMod = FALSE
    /\ readStep = 0
    /\ writeStep = 0
    /\ reflIdle
    /\ last = CallSeq("", 0, Nil, NoVal, 0)

NextOpen ==
    \/ Open
    \/ \E n \in 0..(recCount + 1) : GoTo(n)
    \/ \E op \in Getters, i \in 0..(Len(fields) + 1) : FieldValueAs(op, i)
    \/ Close("none")

SpecOpen == InitOpen /\ [][NextOpen]_vars

\* The code page of an engine, set before and after a file is created and
\* read back from the file by Open.
InitCodePage == Init

NextCodePage ==
    \/ \E cp \in PageInputs : SetCodePage(cp)
    \/ \E in \in FieldInputs : rws = "nil" /\ Len(fields) < MaxFields /\ AddField(in)
    \/ CreateFile
    \/ Flush("none")
    \/ Close("none")
    \/ Open

SpecCodePage == InitCodePage /\ [][NextCodePage]_vars

\* The field codec on tables of one field and one blank record: a field of
\* every type, with no code page or page 866 in the header.
ValueFields ==
    { NewField(<<67>>, << FieldType_Character >>, 3, 0).f,
      NewField(<<78>>, << FieldType_Numeric >>, 3, 0).f,
      NewField(<<77>>, << FieldType_Numeric >>, 5, 2).f,
      NewField(<<70>>, << FieldType_Float >>, 5, 1).f,
      NewField(<<76>>, << FieldType_Logical >>, 1, 0).f,
      NewField(<<68>>, << FieldType_Date >>, 8, 0).f }

ValuePages == { 0, 866 }

ValueStreams ==
    { TableImage([setCodePage(SampleHeader, cp) EXCEPT
                     !.RecCount = 1,
                     !.DataOffset = headerSize + fieldSize + 1,
                     !.RecSize = calcRecSize(<< f >>)],
                 << f >>, << Repeat(space, calcRecSize(<< f >>)) >>) :
        f \in ValueFields, cp \in ValuePages }

\* SetFieldValue arguments of every dynamic type: "", "a", "a ", " a",
\* "abc", "abcd", the Cyrillic "шар" (six bytes of UTF-8), the Latin "é"
\* (no rune of page 866); 0, 7, -5, 123, -12, 1234; 1.5, 1.26,
\* -2.5, 1234.5; true, false; 2024-02-29, 0001-01-01, 9999-12-31,
\* 10000-01-01; a value of an unsupported type.
StringInputs ==
    { << >>, <<97>>, <<97, space>>, <<space, 97>>, <<97, 98, 99>>, <<97, 98, 99, 100>>,
      <<209, 136, 208, 176, 209, 128>>, <<195, 169>> }

IntInputs == { 0, 7, -5, 123, -12, 1234 }

FloatInputs == { FloatV(15, 1), FloatV(126, 2), FloatV(-25, 1), FloatV(12345, 1) }

DateInputs == { DateV(2024, 2, 29), DateV(1, 1, 1), DateV(9999, 12, 31), DateV(10000, 1, 1) }

ValueInputs ==
    { StrV(x) : x \in StringInputs } \cup { IntV(n) : n \in IntInputs }
        \cup FloatInputs \cup { BoolV(b) : b \in BOOLEAN } \cup DateInputs \cup { OtherV }

InitValue == \E s \in ValueStreams : InitEngine("file", s, Today)

NextValue ==
    \/ \E v \in ValueInputs : SetFieldValue(1, v)
    \/ \E op \in Getters : FieldValueAs(op, 1)
    \/ Clear

SpecValue == InitValue /\ [][NextValue]_vars

\* Reading tables of no, one and two records through Read, alone from the
\* opening on or mixed with positioning calls, getters, Close and Open.
ReaderStreams ==
    InitialStreams \cup ReadStreams
        \cup { TableImage([SampleHeader EXCEPT !.RecCount = 0], SampleFields, << >>) }

InitReader == \E s \in ReaderStreams : InitEngine("file", s, Today)

NextReader ==
    \/ Read
    \/ \E n \in 0..(recCount + 1) : GoTo(n)
    \/ \E op \in Getters, i \in 0..Len(fields) : FieldValueAs(op, i)
    \/ Close("none")
    \/ Open

SpecReader == InitReader /\ [][NextReader]_vars

\* buildFields on every key, one call after the other.
InitWalk == InitEngine("nil", << >>, Today)

NextWalk ==
    \/ \E k \in WalkKeys : StartWalk(k)
    \/ Dequeue
    \/ EnumField

SpecWalk == InitWalk /\ [][NextWalk]_vars

\* Goroutines calling cachedFields concurrently, interleaved statement by
\* statement.
InitCache == InitEngine("nil", << >>, Today)

NextCache ==
    \/ \E c \in Callers, k \in CacheKeys : CallCachedFields(c, k)
    \/ \E c \in Callers : RLock(c)
    \/ \E c \in Callers : ReadCache(c)
    \/ \E c \in Callers : RUnlock(c)
    \/ \E c \in Callers : BuildPlan(c)
    \/ \E c \in Callers : Lock(c)
    \/ \E c \in Callers : StoreCache(c)
    \/ \E c \in Callers : Unlock(c)
    \/ \E c \in Callers : ReturnFields(c)

SpecCache == InitCache /\ [][NextCache]_vars

\* Write on a table of two fields (NAME C 2, COUNT N 2) and on an empty
\* stream: records that can be stored, records with a value of the wrong
\* type, a value too long, a value of an unsupported type, and the field
\* table that step 0 takes; mixed with Clear, Add, Save and GoTo.
WriteInputs ==
    { << StrV(<<97, 98>>), IntV(7) >>, << NilV, IntV(5) >>, << StrV(<<97>>) >>, << >>,
      << StrV(<<97, 98, 99>>), IntV(7) >>, << IntV(1), IntV(7) >>,
      << StrV(<<97>>), IntV(123) >>, << OtherV >>,
      << IntV(2), BytesV(Flatten([i \in 1..Len(SampleFields) |-> fieldBytes(SampleFields[i])])) >>,
      << IntV(1), BytesV(<< >>) >> }

InitWrite == \E s \in InitialStreams \cup { << >> } : InitEngine("file", s, Today)

NextWrite ==
    \/ \E in \in WriteInputs : Write(in)
    \/ Clear
    \/ Add
    \/ Save("none")
    \/ \E n \in 0..(recCount + 1) : GoTo(n)

SpecWrite == InitWrite /\ [][NextWrite]_vars

\* Positioning and editing on files that hold fewer records than the header
\* counts: the table of two records whole, cut inside record 2 and cut
\* after record 1.
ShortStreams ==
    LET good == CHOOSE s \in ReadStreams : TRUE
        h == headerDecode(SubSeq(good, 1, headerSize))
    IN  { good,
          SubSeq(good, 1, h.DataOffset + h.RecSize + 2),
          SubSeq(good, 1, h.DataOffset + h.RecSize) }

InitShort == \E s \in ShortStreams : InitEngine("file", s, Today)

NextShort ==
    \/ \E n \in 0..(recCount + 1) : GoTo(n)
    \/ First
    \/ Last
    \/ Next_
    \/ Prev
    \/ \E i \in 1..Len(fields), v \in Values : SetFieldValue(i, v)
    \/ Save("none")

SpecShort == InitShort /\ [][NextShort]_vars

\* ------------------------------------------------------------------ claims
\* The bytes of record n in stream s by the file layout: record_size bytes
\* from data_offset + record_size * (n - 1).
StoredRecord(s, n) ==
    ReadAt(s, header.DataOffset + header.RecSize * (n - 1), header.RecSize)

\* C1: a successful Save in adding mode increases RecCount by exactly 1; a
\* Save in edit mode leaves RecCount unchanged.
C1_SaveRecCount ==
    [][ last'.op = "Save" =>
          IF isAdd
          THEN last'.res = Nil => RecCount' = RecCount + 1
          ELSE RecCount' = RecCount ]_vars

\* A successful adding-mode Save has brought the table to MaxRec records.
C1_Witness ==
    /\ last.op = "Save" /\ last.arg = 1 /\ last.res = Nil
    /\ RecCount = MaxRec

\* C2: a successful Save in adding mode, with R records before the call,
\* writes the record buffer at data_offset + record_size * R, leaves the
\* records 1..R unchanged, increments the record count and recordNum, and
\* clears the adding flag.
C2_SaveAppends ==
    [][ (last'.op = "Save" /\ isAdd /\ last'.res = Nil) =>
          /\ ReadAt(stream', header.DataOffset + header.RecSize * recCount,
                    header.RecSize) = buffer
          /\ \A m \in 1..recCount : StoredRecord(stream', m) = StoredRecord(stream, m)
          /\ recCount' = recCount + 1
          /\ recordNum' = recordNum + 1
          /\ ~isAdd' ]_vars

\* A record has been appended after an existing one and holds the buffer.
C2_Witness ==
    /\ last.op = "Save" /\ last.arg = 1 /\ last.res = Nil
    /\ recCount >= 2
    /\ StoredRecord(stream, recCount) = buffer
    /\ ~isAdd

\* C3: after a successful GoTo(n), SetFieldValue(i, v) and a successful
\* Save() overwrite exactly record n: the record count, the length of the
\* stream and every other record are unchanged, record n holds the buffer,
\* and field i read back from the stored record n is v.
C3_EditInPlace ==
    [][ (last.seq = 2 /\ last'.op = "Save" /\ last'.res = Nil) =>
          /\ RecCount' = RecCount
          /\ Len(stream') = Len(stream)
          /\ \A m \in 1..RecCount :
                m # recordNum => StoredRecord(stream', m) = StoredRecord(stream, m)
          /\ StoredRecord(stream', recordNum) = buffer
          /\ stringValue(fields[last.arg], StoredRecord(stream', recordNum),
                         decoder).val = last.val ]_vars

\* C4: GoTo(n) returns BOF when n < 1 and EOF when n > R; for n in 1..R it
\* reads record_size bytes of record n into the buffer and sets RecNo = n.
\* Next on the last record returns EOF and Prev on the first record returns
\* BOF, leaving the position where it was, so a repeated call does the same.
C4_GoToRange ==
    [][ last'.op \in Positioning =>
          /\ last'.op = "GoTo" =>
                LET n == last'.arg
                IN  /\ n < 1 => last'.res = BOFError
                    /\ n > recCount => last'.res = ioEOF
                    /\ (n >= 1 /\ n <= recCount) =>
                          /\ last'.res = Nil
                          /\ Len(buffer') = header.RecSize
                          /\ buffer' = StoredRecord(stream, n)
                          /\ RecNo' = n
          /\ (last'.op = "Next" /\ recCount >= 1 /\ recordNum = recCount) =>
                last'.res = ioEOF /\ recordNum' = recordNum
          /\ (last'.op = "Prev" /\ recCount >= 1 /\ recordNum = 1) =>
                last'.res = BOFError /\ recordNum' = recordNum ]_vars

\* Next has returned EOF on the last of two records.
C4_Witness ==
    /\ last.op = "Next" /\ last.res = ioEOF
    /\ recCount = 2 /\ recordNum = recCount

\* C5: Next() directly after a successful Last() makes EOF() true, and
\* Prev() directly after a successful First() makes BOF() true.
C5_EndPredicates ==
    [][ /\ (last.op = "Last" /\ last.res = Nil /\ last'.op = "Next") => EOF'
        /\ (last.op = "First" /\ last.res = Nil /\ last'.op = "Prev") => BOF' ]_vars

\* The length of a table of the header's record count without and with the
\* end-of-file byte.
BodySize == header.DataOffset + RecCount * header.RecSize
FullSize == BodySize + 1

\* The stream from the end of the header on.
AfterHeader(s) == SubSeq(s, headerSize + 1, Len(s))

\* C6: after a successful Flush or Close the length of the stream is
\* data_offset + RecCount * record_size + 1 and its last byte is the single
\* end-of-file byte 0x1A, whatever the kind of the stream.
C6_StreamLength ==
    (last.op \in {"Flush", "Close"} /\ last.res = Nil) =>
        /\ Len(stream) = FullSize
        /\ stream[Len(stream)] = fileEnd

\* C7 as stated: a Flush with pending modifications leaves the tail of the
\* file alone whenever its length is not data_offset + R * record_size + 1.
C7_TailAsStated ==
    [][ (last'.op = "Flush" /\ isMod /\ last'.res = Nil /\ Len(stream) # FullSize) =>
          /\ Len(stream') = Len(stream)
          /\ AfterHeader(stream') = AfterHeader(stream) ]_vars

\* C7: a Flush with pending modifications on an OS file appends the single
\* end-of-file byte exactly when the length of the file is data_offset +
\* R * record_size, the terminator missing; at any other length, the full
\* length data_offset + R * record_size + 1 included, it writes no
\* terminator and leaves the length and the bytes after the header alone.
C7_FlushTail ==
    [][ (last'.op = "Flush" /\ rws = "file" /\ isMod /\ last'.res = Nil) =>
          IF Len(stream) = BodySize
          THEN AfterHeader(stream') = AfterHeader(stream) \o << fileEnd >>
          ELSE /\ Len(stream') = Len(stream)
               /\ AfterHeader(stream') = AfterHeader(stream) ]_vars

\* A Flush with pending modifications has completed a table of MaxRec
\* records, the last of them appended, with the end-of-file byte.
C7_Witness ==
    /\ last.op = "Flush" /\ last.arg = 1 /\ last.res = Nil
    /\ RecCount = MaxRec
    /\ Len(stream) = FullSize
    /\ stream[Len(stream)] = fileEnd

\* C8: Close() releases the stream whatever Flush returned.
C8_CloseReleases ==
    last.op = "Close" => rws = "closed"

\* C9: while the sticky error is set, every call but Clear() keeps it, a
\* getter returns the zero value of its type, SetFieldValue leaves the
\* buffer unchanged; Clear() resets the error to nil.
C9_StickyError ==
    [][ err # Nil =>
          /\ last'.op # "Clear" => err' = err
          /\ last'.op \in Getters => last'.val = ZeroOf(last'.op)
          /\ last'.op = "SetFieldValue" => buffer' = buffer
          /\ last'.op = "Clear" => err' = Nil ]_vars

\* A getter has returned its zero value on a field in range while an error
\* of an earlier SetFieldValue is held.
C9_Witness ==
    /\ err # Nil /\ err.op = "SetFieldValue"
    /\ last.op \in Getters /\ fieldInRange(last.arg)
    /\ last.val = ZeroOf(last.op)

\* C10: SetFieldValue or a getter with a field number outside
\* 1..FieldCount leaves the buffer unchanged and the sticky error set; set
\* by this call, the error is "field number out of range" with the name of
\* the operation and the index and no field name.  Save with the sticky
\* error set returns it and writes nothing.
C10_OutOfRange ==
    [][ /\ ((last'.op = "SetFieldValue" \/ last'.op \in Getters)
              /\ ~fieldInRange(last'.arg)) =>
              /\ buffer' = buffer
              /\ err' # Nil
              /\ err = Nil =>
                    err' = [kind |-> "field number out of range", op |-> last'.op,
                            fieldNo |-> last'.arg, named |-> FALSE, name |-> << >>]
        /\ (last'.op = "Save" /\ err # Nil) =>
              /\ last'.res = err
              /\ stream' = stream
              /\ header' = header
              /\ recordNum' = recordNum ]_vars

\* Save has returned the out-of-range error of an earlier SetFieldValue.
C10_Witness ==
    /\ last.op = "Save"
    /\ last.res.kind = "field number out of range"
    /\ last.res.op = "SetFieldValue" /\ ~last.res.named

\* C11: Add() in adding mode returns the already-adding error and changes
\* neither the record buffer nor the mode; otherwise it returns nil, fills
\* every byte of the record buffer with a space and sets adding mode.
C11_Add ==
    [][ last'.op = "Add" =>
          IF isAdd
          THEN /\ last'.res = Err("current record is add model,Save it first")
               /\ buffer' = buffer
               /\ isAdd'
          ELSE /\ last'.res = Nil
               /\ Len(buffer') = Len(buffer)
               /\ \A i \in 1..Len(buffer') : buffer'[i] = space
               /\ isAdd' ]_vars

\* A second Add() has been refused with a value set in the buffer.
C11_Witness ==
    /\ last.op = "Add" /\ last.res # Nil
    /\ isAdd
    /\ \E i \in 1..Len(buffer) : buffer[i] # space

\* C12: from Open on, positioning calls, field getters and Close write
\* nothing: the stream stays byte for byte the file that was opened, header
\* date included, and the engine is never marked modified.
C12_ReadOnly ==
    /\ stream \in ReadStreams
    /\ ~isMod

\* The file has been closed after the cursor reached the second record and
\* a getter recorded an error.
C12_Witness ==
    /\ last.op = "Close" /\ last.res = Nil /\ rws = "closed"
    /\ recordNum = 2
    /\ err # Nil

\* 1 + the sum of the lengths of the fields.
RECURSIVE LengthsPlusOne(_)
LengthsPlusOne(fs) ==
    IF Len(fs) = 0 THEN 1 ELSE LengthsPlusOne(Tail(fs)) + Head(fs).Len

\* The header in memory, and the header at the start of the stream, carry
\* record_size = 1 + sum of the field lengths and data_offset =
\* 32 * (1 + number of fields) + 1.
HeaderSizes ==
    LET onDisk == headerDecode(ReadAt(stream, 0, headerSize))
    IN  /\ header.RecSize = LengthsPlusOne(fields)
        /\ header.DataOffset = 32 * (1 + Len(fields)) + 1
        /\ onDisk.RecSize = LengthsPlusOne(fields)
        /\ onDisk.DataOffset = 32 * (1 + Len(fields)) + 1

\* C13 as stated: the sizes hold in every state of an engine bound to a
\* file it created, AddField being among the calls that may follow
\* CreateFile.
C13_AsStated ==
    Bound => HeaderSizes

\* C13: the sizes hold after a successful CreateFile, and every call but
\* AddField keeps them; so they hold in every state of an engine bound to a
\* file it created when every AddField came before CreateFile.
C13_HeaderSizes ==
    [][ /\ (last'.op = "CreateFile" /\ last'.res = Nil) => HeaderSizes'
        /\ (Bound /\ HeaderSizes /\ last'.op # "AddField") => HeaderSizes' ]_vars

\* A created table has received a record and has been flushed, and the
\* sizes hold.
C13_Witness ==
    /\ last.op = "Flush" /\ last.arg = 1 /\ last.res = Nil
    /\ RecCount >= 1
    /\ HeaderSizes

\* The bytes of the record buffer field i occupies, counted from 0.
FieldRange(i) == fields[i].Offset..(fields[i].Offset + fields[i].Len - 1)

\* C14: in an engine bound by CreateFile or by opening a well-formed file
\* the first field is at offset 1 and each next field at the previous offset
\* plus the previous length; every field's range lies in 1..record_size-1,
\* no two ranges overlap, and together they are exactly 1..record_size-1.
C14_FieldOffsets ==
    Bound =>
        /\ \A i \in 1..Len(fields) :
              fields[i].Offset =
                  IF i = 1 THEN 1 ELSE fields[i - 1].Offset + fields[i - 1].Len
        /\ \A i \in 1..Len(fields) : FieldRange(i) \subseteq 1..(header.RecSize - 1)
        /\ \A i, j \in 1..Len(fields) : i # j => FieldRange(i) \cap FieldRange(j) = {}
        /\ UNION { FieldRange(i) : i \in 1..Len(fields) } = 1..(header.RecSize - 1)

\* A table of two fields has been opened again after a Close.
C14_Witness ==
    /\ last.op = "Open" /\ last.res = Nil /\ Bound
    /\ Len(fields) = 2
    /\ fields[2].Offset = 1 + fields[1].Len

\* C15 as stated: right after a successful CreateFile the record buffer has
\* record_size bytes, every one a space, and the engine is marked modified.
C15_AsStated ==
    [][ (last'.op = "CreateFile" /\ last'.res = Nil) =>
          /\ Len(buffer') = header'.RecSize
          /\ \A i \in 1..Len(buffer') : buffer'[i] = space
          /\ isMod' ]_vars

\* C15: right after a successful CreateFile the record buffer has
\* record_size bytes, every one a zero byte, and the engine is marked
\* modified.
C15_CreateFileBuffer ==
    [][ (last'.op = "CreateFile" /\ last'.res = Nil) =>
          /\ Len(buffer') = header'.RecSize
          /\ \A i \in 1..Len(buffer') : buffer'[i] = 0
          /\ isMod' ]_vars

\* CreateFile has just returned nil on a table of at least one field.
C15_Witness ==
    /\ last.op = "CreateFile" /\ last.res = Nil
    /\ Len(buffer) = header.RecSize /\ Len(buffer) >= 2
    /\ isMod

\* C16: opening a stream that holds a 32-byte header whose byte 0 is not
\* 0x03 fails with the not-a-table-file error, binds no engine and leaves
\* the stream as it was.
C16_NotDBF ==
    [][ (last'.op = "Open" /\ Len(stream) >= headerSize /\ stream[1] # dbfId) =>
          /\ last'.res = ErrNotDBF
          /\ rws' = "closed"
          /\ stream' = stream ]_vars

\* An Open of a file with another file-type byte has been refused.
C16_Witness ==
    /\ last.op = "Open" /\ last.res = ErrNotDBF
    /\ rws = "closed"
    /\ stream[1] # dbfId

\* C17: SetCodePage(p) with p a supported page installs the encoder and the
\* decoder of p and sets the header's code-page byte so that CodePage() is
\* p; with any other p, 0 included, it changes nothing.  For every
\* supported page p, pageByCode(codeByPage(p)) = p; an unknown page maps to
\* tag 0 and an unknown tag to page 0.
SupportedPages ==
    { 437, 850, 1252, 10000, 852, 866, 865, 1255, 1256, 10007, 1250, 1251, 1254, 1253 }

SupportedTags == { c[1] : c \in cPages }

PageTableRoundTrip ==
    /\ \A p \in SupportedPages : pageByCode(codeByPage(p)) = p
    /\ \A p \in PageInputs \ SupportedPages : codeByPage(p) = 0
    /\ \A t \in (0..255) \ SupportedTags : pageByCode(t) = 0

C17_SetCodePage ==
    [][ last'.op = "SetCodePage" =>
          /\ IF last'.arg \in SupportedPages
             THEN /\ encoder' = last'.arg
                  /\ decoder' = last'.arg
                  /\ CodePage' = last'.arg
             ELSE UNCHANGED << header, encoder, decoder >>
          /\ PageTableRoundTrip
          /\ header'.CP \in SupportedTags \cup {0} ]_vars

\* SetCodePage(866) was called on an engine of another page, and
\* SetCodePage with an unsupported page on an engine that has a page.
C17_Witness ==
    /\ last.op = "SetCodePage"
    /\ \/ last.arg = 866 /\ CodePage = 866 /\ header.CP = 101
       \/ last.arg = 936 /\ CodePage = 1251

\* The field type a value of dynamic type t corresponds to, 0 for a type
\* setValue does not support.
TypeOf(t) ==
    CASE t = "string" -> FieldType_Character
      [] t = "int" -> FieldType_Numeric
      [] t = "float" -> FieldType_Float
      [] t = "bool" -> FieldType_Logical
      [] t = "date" -> FieldType_Date
      [] OTHER -> 0

\* The rendering of value v for field f with encoder enc: the string's
\* bytes after encoding, the integer's digits and decimal filler, the
\* float's fixed-decimals text.
Rendered(f, v, enc) ==
    CASE v.t = "string" ->
            IF enc # 0 /\ ~isASCII(v.s) THEN encString(enc, v.s)
            ELSE [val |-> v.s, err |-> Nil]
      [] v.t = "int" ->
            [val |-> FormatInt(v.n) \o (IF f.Dec > 0 THEN << chDot >> \o Repeat(chZero, f.Dec)
                                         ELSE << >>),
             err |-> Nil]
      [] v.t = "float" -> [val |-> FormatFloat(v, f.Dec), err |-> Nil]

\* C18: a value of a supported type that does not correspond to the field's
\* type (string-C, integer-N, float-F, bool-L, date-D) fails with the
\* type-mismatch error; a string, integer or float of the field's type
\* whose rendering is longer than the field fails with the value-overflow
\* error; either way the record buffer is unchanged.
C18_SetterErrors ==
    [][ (last'.op = "SetFieldValue" /\ err = Nil /\ fieldInRange(last'.arg)) =>
          LET f == fields[last'.arg]
              v == last'.val
          IN  /\ (TypeOf(v.t) # 0 /\ TypeOf(v.t) # f.Type) =>
                    /\ err'.kind = "type mismatch"
                    /\ buffer' = buffer
              /\ (TypeOf(v.t) = f.Type /\ v.t \in {"string", "int", "float"}
                    /\ Rendered(f, v, encoder).err = Nil
                    /\ Len(Rendered(f, v, encoder).val) > f.Len) =>
                    /\ err'.kind = "field value overflow"
                    /\ buffer' = buffer ]_vars

\* Both errors have been produced: the overflow by a Cyrillic string of
\* six bytes, which fits when encoded, set with no encoder, or by a float
\* too wide; the mismatch by a date set into the numeric field.
C18_Witness ==
    /\ last.op = "SetFieldValue"
    /\ \/ /\ err.kind = "field value overflow"
          /\ \/ last.val = StrV(<<209, 136, 208, 176, 209, 128>>) /\ encoder = 0
             \/ last.val = FloatV(12345, 1)
       \/ /\ err.kind = "type mismatch"
          /\ last.val.t = "date" /\ fields[1].Type = FieldType_Numeric

\* The getter of the field type a value of dynamic type t corresponds to.
GetterOf(t) ==
    CASE t = "string" -> "FieldValueAsString"
      [] t = "int" -> "FieldValueAsInt"
      [] t = "float" -> "FieldValueAsFloat"
      [] t = "bool" -> "FieldValueAsBool"
      [] t = "date" -> "FieldValueAsDate"

\* A SetFieldValue of a supported value has just stored it in field 1.
JustSet ==
    /\ last'.op = "SetFieldValue" /\ last'.arg = 1
    /\ err = Nil /\ err' = Nil
    /\ TypeOf(last'.val.t) # 0

\* What the getter of the value's type returns for field 1.
ReadBack == FieldValueResult(GetterOf(last.val.t), 1)

\* C19 as stated: reading a field back after setting it to v returns v, for
\* every string that fits (with leading or trailing spaces, or empty), every
\* integer that fits, both booleans and every date.
C19_AsStated ==
    [][ (JustSet /\ last'.val.t \in {"string", "int", "bool", "date"}) =>
          /\ ReadBack'.err = Nil
          /\ ReadBack'.val = last'.val ]_vars

\* C19: reading a field back after setting it to v returns: for C, v
\* without its trailing spaces (v itself when it ends in no space, the
\* empty string and strings with leading spaces included); for N, with or
\* without decimals, the integer v; for L, v; for D, v when its year has at
\* most four digits; for F, v when it has no more fraction digits than the
\* field has decimals.
C19_RoundTrip ==
    [][ JustSet =>
          LET v == last'.val
              f == fields[1]
          IN  CASE v.t = "string" ->
                      /\ ReadBack'.err = Nil
                      /\ ReadBack'.val = StrV(TrimRight(v.s, space))
                [] v.t \in {"int", "bool"} ->
                      /\ ReadBack'.err = Nil
                      /\ ReadBack'.val = v
                [] v.t = "date" ->
                      v.s[1] <= 9999 => (ReadBack'.err = Nil /\ ReadBack'.val = v)
                [] v.t = "float" ->
                      v.s[1] <= f.Dec => (ReadBack'.err = Nil /\ ReadBack'.val = v) ]_vars

\* -12 has been stored in the numeric field of two decimals as "-12.00"
\* hence reads back as -12; or the Cyrillic string has been stored by the
\* encoder of page 866 in three bytes.
C19_Witness ==
    /\ last.op = "SetFieldValue" /\ err = Nil
    /\ \/ /\ last.val = IntV(-12) /\ fields[1].Dec = 2
          /\ buffer = << space, chMinus, chZero + 1, chZero + 2, chDot, chZero, chZero >>
          /\ ReadBack.val = IntV(-12)
       \/ /\ last.val = StrV(<<209, 136, 208, 176, 209, 128>>) /\ encoder = 866
          /\ buffer = << space, 232, 160, 224 >>
          /\ ReadBack.val = last.val

\* The strings of record n of the file: the trimmed text of every field.
RecordStrings(n) ==
    StrsV([i \in 1..Len(fields) |-> TrimSpace(buffer_(fields[i], StoredRecord(stream, n)))])

\* C20: of the Read calls made one after the other on a freshly opened table
\* of R records, the first returns the field names, calls 2..R+1 return
\* records 1..R in order, each with a nil error, and every later call
\* returns (nil, io.EOF).
C20_ReaderProtocol ==
    [][ (last'.op = "Read" /\ last'.arg >= 1) =>
          LET k == last'.arg
          IN  IF k = 1 THEN last'.res = Nil /\ last'.val = Fields
              ELSE IF k - 1 <= recCount
              THEN last'.res = Nil /\ last'.val = RecordStrings(k - 1)
              ELSE last'.res = ioEOF /\ last'.val = NilV ]_vars

\* The leaf fields a walk of struct type typ discovers below access path
\* index under name prefix: column name, whether the field carries a tag,
\* and access path.  Embedded untagged structs and inline structs are
\* descended into, to paths of at most MaxWalkDepth + 1 indices.
RECURSIVE Leaves(_, _, _, _)
Leaves(tagname, typ, prefix, index) ==
    IF Len(index) > MaxWalkDepth THEN {}
    ELSE UNION {
        LET sf == StructTypes[typ][i + 1]
            t == parseTag(tagname, sf)
            pre == IF prefix # "" THEN t.prefix \o prefix ELSE t.prefix
        IN  IF (~sf.Exported /\ ~sf.Anonymous) \/ t.ignore THEN {}
            ELSE IF IsStruct(sf.Type) /\ ((sf.Anonymous /\ t.empty) \/ t.inline)
            THEN Leaves(tagname, sf.Type, pre, Append(index, i))
            ELSE { [name |-> pre \o t.name, tagged |-> ~t.empty, index |-> Append(index, i)] }
        : i \in 0..(Len(StructTypes[typ]) - 1) }

\* The columns of key k by the tie-breaking rule: of the discoveries of a
\* name, those of the least depth count; a single one is the column; of
\* several, the tagged one when exactly one is tagged, else none.
Columns(k) ==
    LET D == Leaves(k.tag, k.typ, "", << >>)
        top(n) == { x \in D : x.name = n
                      /\ \A y \in D : y.name = n => Len(x.index) <= Len(y.index) }
        chosen(n) == IF Cardinality(top(n)) = 1 THEN top(n)
                     ELSE IF Cardinality({ x \in top(n) : x.tagged }) = 1
                     THEN { x \in top(n) : x.tagged }
                     ELSE {}
    IN  UNION { chosen(x.name) : x \in D }

\* Lexicographic order of access paths.
LexLess(a, b) ==
    \/ \E k \in 1..Min(Len(a), Len(b)) :
          a[k] < b[k] /\ \A j \in 1..(k - 1) : a[j] = b[j]
    \/ Len(a) < Len(b) /\ \A j \in 1..Len(a) : a[j] = b[j]

\* C21: the plan buildFields returns holds exactly the columns of the
\* tie-breaking rule (of several fields of one name at the same depth the
\* tagged one when exactly one is tagged, none when two or more or none
\* are tagged; deeper fields of the name count for nothing), in the
\* lexicographic order of their access paths.
C21_TieBreak ==
    (walk.done /\ walk.k \in WalkKeys) =>
        /\ { [name |-> walk.plan[i].name, tagged |-> ~walk.plan[i].tag.empty,
              index |-> walk.plan[i].index] : i \in 1..Len(walk.plan) } = Columns(walk.k)
        /\ \A i, j \in 1..Len(walk.plan) :
              i < j => LexLess(walk.plan[i].index, walk.plan[j].index)

\* The plan of Amb under "dbf": of X (untagged, in E1) and V tagged "X" (in
\* E2), both at depth 2, the tagged one; W, twice untagged, is dropped.
\* And the plan of Tie: X from the tagged Y, then Z; "n", twice tagged, is
\* dropped.
C21_Witness ==
    /\ walk.done /\ walk.k.tag = "dbf"
    /\ \/ walk.k.typ = "Amb" /\ Len(walk.plan) = 1 /\ walk.plan[1].index = << 1, 1 >>
       \/ /\ walk.k.typ = "Tie" /\ Len(walk.plan) = 2
          /\ walk.plan[1].index = << 1 >> /\ walk.plan[2].index = << 6 >>

\* The plan buildFields returns for each key cachedFields is called with.
Plans == [k \in CacheKeys |-> buildFields(k)]

\* The goroutines that are accessing the cache map.
Accessing == { c \in Callers : callers[c].pc \in {"read", "write"} }

\* C22: while a goroutine writes the cache map it holds the exclusive lock
\* and no other goroutine reads or writes the map; the plan a call of
\* cachedFields(k) returns is buildFields(k); and when no call is in
\* progress, the cache entry of every key a call returned for is
\* buildFields of that key.
C22_CachedFields ==
    /\ \A c \in Callers :
        callers[c].pc = "write" =>
            /\ fieldCache.writer = c
            /\ fieldCache.readers = {}
            /\ Accessing = {c}
    /\ \A c \in Callers :
        callers[c].pc = "return" => callers[c].fields = Plans[callers[c].k]
    /\ (\A c \in Callers : callers[c].pc \in {"idle", "return"}) =>
        /\ \A k \in DOMAIN fieldCache.m : fieldCache.m[k] = Plans[k]
        /\ \A c \in Callers :
            callers[c].pc = "return" => callers[c].k \in DOMAIN fieldCache.m

\* Two goroutines called cachedFields with the same key, both built the
\* plan, one has stored it and returned and the other one is writing.
C22_Witness ==
    /\ callers[1].pc = "return" /\ ~callers[1].ok
    /\ callers[2].pc = "write" /\ callers[2].k = callers[1].k
    /\ callers[1].k \in DOMAIN fieldCache.m

\* C23: buildFields terminates for every struct type because the walk
\* processes each (type, tag-prefix) pair at most once: no two nodes the
\* walk has processed have the same type and the same tag prefix.
C23_VisitOnce ==
    \A a, b \in walk.visited :
        (a.typ = b.typ /\ a.tag.prefix = b.tag.prefix) => a = b

\* C24: after a successful Save() that appended or edited a record, the
\* buffer equals the stored bytes of record RecNo(); after Add(); Save()
\* from any cursor position, RecNo() = RecCount().
C24_SaveDesignates ==
    [][ (last'.op = "Save" /\ last'.res = Nil /\ (isAdd \/ recordNum # 0)) =>
          /\ RecNo' \in 1..RecCount'
          /\ buffer' = StoredRecord(stream', RecNo')
          /\ isAdd => RecNo' = RecCount' ]_vars

\* C25: a successful positioning call leaves the engine in edit mode: the
\* engine is not in adding mode after it, whatever was called before, so the
\* Save() that follows overwrites record RecNo() and appends nothing.
C25_PositioningEdits ==
    [][ /\ (last'.op \in Positioning /\ last'.res = Nil) => ~isAdd'
        /\ (last.op \in Positioning /\ last.res = Nil
              /\ last'.op = "Save" /\ last'.res = Nil) =>
             /\ RecCount' = RecCount
             /\ Len(stream') = Len(stream)
             /\ RecNo' = RecNo
             /\ StoredRecord(stream', RecNo) = buffer ]_vars

\* C26: when Open returns an engine without error for a non-empty stream,
\* the header has been read and validated, as many descriptors are loaded
\* as data_offset tells and the buffer has record_size bytes; a stream that
\* ends before the whole field table is read is rejected with an error.
C26_OpenComplete ==
    [][ (last'.op = "Open" /\ Len(stream) > 0) =>
          /\ last'.res = Nil =>
                /\ rws' = "file"
                /\ header'.DbfId = dbfId
                /\ Len(fields') = fieldCount(header')
                /\ Len(buffer') = header'.RecSize
          /\ (Len(stream) >= headerSize
                /\ Len(stream) < headerSize
                     + fieldSize * fieldCount(headerDecode(SubSeq(stream, 1, headerSize)))) =>
                last'.res # Nil /\ rws' = "closed" ]_vars

\* C27: after a successful Flush() or Close() of a bound engine the 32
\* header bytes on the stream are the encoding of the in-memory header; and
\* every other call that changes the in-memory header of a bound engine
\* leaves the engine marked modified.
C27_HeaderOnStream ==
    [][ /\ (Bound /\ last'.op \in {"Flush", "Close"} /\ last'.res = Nil) =>
              SubSeq(stream', 1, headerSize) = headerBytes(header')
        /\ (Bound /\ last'.op \notin {"Flush", "Close", "Open"} /\ header' # header) =>
              isMod' ]_vars

\* The values can all be stored in a blank record of the loaded fields.
Storable(input) ==
    /\ Len(input) <= Len(fields)
    /\ setValues(fields, clearBuf(buffer), input, 1, encoder).err = Nil

\* C28: when Write(values) fails because a value cannot be stored, no
\* record is appended and the engine is not left in adding mode; the Write
\* of storable values that follows it succeeds and appends exactly one
\* record.
C28_WriteFailureClean ==
    [][ /\ (last'.op = "Write" /\ last'.arg = 2) =>
              /\ last'.res # Nil
              /\ RecCount' = RecCount
              /\ stream' = stream
              /\ ~isAdd'
        /\ (last.op = "Write" /\ last.arg = 2
              /\ last'.op = "Write" /\ Storable(last'.val.s)) =>
              /\ last'.res = Nil
              /\ RecCount' = RecCount + 1
              /\ StoredRecord(stream', RecCount') = buffer' ]_vars

\* C29: when a positioning call returns an error, RecNo() and the record
\* buffer are what they were before the call.
C29_FailedPositioning ==
    [][ (last'.op \in Positioning /\ last'.res # Nil) =>
          /\ RecNo' = RecNo
          /\ buffer' = buffer ]_vars

\* C30: in every state of a bound engine 0 <= RecNo() <= RecCount();
\* RecCount() never decreases and changes only by +1 in a successful Save in
\* adding mode; RecNo() is 0 when the engine is bound, is not 0 after a
\* positioning call or an append that succeeded, and once it is not 0 it
\* stays so.
C30_CursorRange ==
    [][ /\ Bound => RecNo \in 0..RecCount
        /\ Bound' => RecNo' \in 0..RecCount'
        /\ (Bound /\ Bound') =>
              /\ RecCount' >= RecCount
              /\ RecCount' # RecCount =>
                    /\ last'.op = "Save" /\ last'.res = Nil /\ isAdd
                    /\ RecCount' = RecCount + 1
              /\ RecNo # 0 => RecNo' # 0
              /\ (last'.res = Nil
                    /\ (last'.op \in Positioning \/ (last'.op = "Save" /\ isAdd))) =>
                    RecNo' # 0
        /\ (~Bound /\ Bound') => RecNo' = 0 ]_vars

\* A record has been appended to a table of one record with the cursor on
\* record 1: both RecNo() and RecCount() are 2.
C30_Witness ==
    /\ Bound
    /\ last.op = "Save" /\ last.arg = 1 /\ last.res = Nil
    /\ RecNo = 2 /\ RecCount = 2

====
